---- MODULE Spec2Model ----
(***************************************************************************)
(* Model of the pipenv environment manager (PipenvManager), its persisted  *)
(* scope bindings (pipenvUtils) and the pipenv package manager            *)
(* (PipenvPackageManager) of vscode-python-environments.                   *)
(*                                                                         *)
(* Asynchronous operations are tasks; every await of real I/O (the native  *)
(* finder, the persistent state, the pipenv executable) is a point where   *)
(* another task may run.  Code between two such awaits is one step.        *)
(***************************************************************************)
EXTENDS Integers, Sequences, FiniteSets, TLC

\* ------------------------------------------------------------------ bounds
\* operations started on one manager instance in one behaviour
MaxOps == 3
\* things that happen outside the manager in one behaviour: another process
\* changes the installations or the packages, the extension host restarts
MaxExt == 1
\* package operations started on the package manager in one behaviour
MaxPkgOps == 3
\* longest package list handed to getChanges
MaxLen == 2

\* ------------------------------------------------------------------- paths
\* A path is the sequence of its segments; <<>> stands for "no path"
\* (undefined); the file-system root itself is never used.
NoPath == <<>>
P1 == <<"w1">>
P2 == <<"w2">>
F1 == <<"w1", "app">>
X == <<"tmp">>
V1 == <<"w1", "venv">>
V2 == <<"w2", "venv">>
G == <<"envs", "g">>
H == <<"envs", "h">>

\* path.dirname
dirname(p) == IF Len(p) = 0 THEN p ELSE SubSeq(p, 1, Len(p) - 1)

\* path.basename
basename(p) == IF Len(p) = 0 THEN "" ELSE p[Len(p)]

\* length of a segment name, and its rank in lexical order
SegLen(s) == CASE s = "w1" -> 2 [] s = "w2" -> 2 [] s = "app" -> 3 [] s = "tmp" -> 3
               [] s = "venv" -> 4 [] s = "envs" -> 4 [] s = "g" -> 1 [] s = "h" -> 1
               [] OTHER -> 0
SegRank(s) == CASE s = "app" -> 1 [] s = "envs" -> 2 [] s = "g" -> 3 [] s = "h" -> 4
               [] s = "tmp" -> 5 [] s = "venv" -> 6 [] s = "w1" -> 7 [] s = "w2" -> 8
               [] OTHER -> 0

RECURSIVE fsPathLength(_)
\* fsPath.length of the string "/seg/seg..."
fsPathLength(p) == IF Len(p) = 0 THEN 0 ELSE 1 + SegLen(p[1]) + fsPathLength(Tail(p))

RECURSIVE localeComparePath(_, _)
\* a.localeCompare(b) for two path strings: -1, 0 or 1
localeComparePath(a, b) ==
    IF Len(a) = 0 /\ Len(b) = 0 THEN 0
    ELSE IF Len(a) = 0 THEN -1
    ELSE IF Len(b) = 0 THEN 1
    ELSE IF SegRank(a[1]) < SegRank(b[1]) THEN -1
    ELSE IF SegRank(a[1]) > SegRank(b[1]) THEN 1
    ELSE localeComparePath(Tail(a), Tail(b))

\* a.localeCompare(b) for two names
localeCompareName(a, b) ==
    IF SegRank(a) < SegRank(b) THEN -1 ELSE IF SegRank(a) > SegRank(b) THEN 1 ELSE 0

\* api.getPythonProjects(): the registered projects, in registration order
Projects == <<P1, P2>>

IsPrefixPath(a, b) == Len(a) <= Len(b) /\ SubSeq(b, 1, Len(a)) = a

\* api.getPythonProject(uri): the registered project that owns the path
\* (the deepest project folder containing it), or NoPath
getPythonProject(p) ==
    LET owners == {i \in 1..Len(Projects) : IsPrefixPath(Projects[i], p)}
    IN IF owners = {} THEN NoPath
       ELSE Projects[CHOOSE i \in owners :
                \A j \in owners : Len(Projects[j]) <= Len(Projects[i])]

\* ------------------------------------------------------------ environments
\* a record reported by the native finder
R1 == [prefix |-> V1, version |-> <<3, 10>>, executable |-> TRUE]
R2 == [prefix |-> V2, version |-> <<3, 11>>, executable |-> TRUE]
R3 == [prefix |-> G, version |-> <<3, 11>>, executable |-> TRUE]
R4 == [prefix |-> H, version |-> <<>>, executable |-> TRUE]
Records == {R1, R2, R3, R4}
\* records without an executable path and without an install path
R5 == [prefix |-> X, version |-> <<3, 10>>, executable |-> FALSE]
R6 == [prefix |-> NoPath, version |-> <<3, 11>>, executable |-> TRUE]

NoEnv == [path |-> NoPath, version |-> <<>>]

\* a variant of the validity test that does not look at the executable path
IsCompleteButExecutable(r) == r.prefix # NoPath /\ r.version # <<>>

\* the validity test of refreshPipenv / resolvePipenvPath
IsComplete(r) == r.prefix # NoPath /\ r.executable /\ r.version # <<>>

\* the environment item created for a record
EnvOf(r) == [path |-> r.prefix, version |-> r.version]

EnvName(e) == basename(e.path)

RECURSIVE isGreaterFrom(_, _, _)
isGreaterFrom(a, b, i) ==
    IF i > Len(a) THEN FALSE
    ELSE IF i > Len(b) THEN TRUE
    ELSE IF a[i] > b[i] THEN TRUE
    ELSE IF a[i] < b[i] THEN FALSE
    ELSE isGreaterFrom(a, b, i + 1)

\* isGreater(a, b): strictly greater version; <<>> is "no version"
isGreater(a, b) ==
    IF a = <<>> THEN FALSE
    ELSE IF b = <<>> THEN TRUE
    ELSE isGreaterFrom(a, b, 1)

\* the comparator of sortEnvironments: TRUE when a sorts before b
EnvBefore(a, b) ==
    IF a.version # b.version THEN isGreater(a.version, b.version)
    ELSE IF localeCompareName(EnvName(a), EnvName(b)) # 0
         THEN localeCompareName(EnvName(a), EnvName(b)) < 0
    ELSE localeComparePath(a.path, b.path) < 0

RECURSIVE sortSet(_)
sortSet(S) ==
    IF S = {} THEN <<>>
    ELSE LET first == CHOOSE a \in S : \A b \in S \ {a} : EnvBefore(a, b)
         IN <<first>> \o sortSet(S \ {first})

\* sortEnvironments(collection)
sortEnvironments(S) == sortSet(S)

\* a variant of refreshPipenv that admits every record
refreshPipenvUnvetted(items) == sortEnvironments({EnvOf(r) : r \in items})

\* refreshPipenv for the pipenv records `items` returned by nativeFinder.refresh
refreshPipenv(items) == sortEnvironments({EnvOf(r) : r \in {q \in items : IsComplete(q)}})

RECURSIVE getLatestFrom(_, _, _)
getLatestFrom(c, i, latest) ==
    IF i > Len(c) THEN latest
    ELSE getLatestFrom(c, i + 1,
            IF isGreater(c[i].version, latest.version) THEN c[i] ELSE latest)

\* getLatest(collection)
getLatest(c) == IF Len(c) = 0 THEN NoEnv ELSE getLatestFrom(c, 1, c[1])

Range(s) == {s[i] : i \in 1..Len(s)}

\* Array.prototype.find: the first element satisfying the test, or NoEnv
FindFirst(c, Test(_)) ==
    LET hits == {i \in 1..Len(c) : Test(c[i])}
    IN IF hits = {} THEN NoEnv ELSE c[CHOOSE i \in hits : \A j \in hits : i <= j]

\* PipenvManager.findEnvironmentByPath
findEnvironmentByPath(c, fsPath) ==
    LET Test(e) == \/ e.path = fsPath
                   \/ dirname(e.path) = fsPath
                   \/ dirname(dirname(e.path)) = fsPath
    IN FindFirst(c, Test)


\* what a listener of onDidChangeEnvironments holds after an event: it drops the
\* environments of the remove entries, then takes in those of the add entries
ApplyEvent(held, event) ==
    (held \ {event.changes[i].environment :
                 i \in {j \in 1..Len(event.changes) : event.changes[j].kind = "remove"}})
    \cup {event.changes[i].environment :
              i \in {j \in 1..Len(event.changes) : event.changes[j].kind = "add"}}

\* ------------------------------------------------------------------- state
\* the paths that occur as keys of fsPathToEnv and of the persisted map
Keys == {P1, P2, F1}

\* the callers (async call chains) that may be in flight at the same time
Tasks == {"t1", "t2"}

VARIABLES
    \* PipenvManager (part_003)
    collection,      \* this.collection
    discovered,      \* what refreshPipenv returned last
    fsPathToEnv,     \* this.fsPathToEnv (NoEnv: no entry)
    globalEnv,       \* this.globalEnv
    initialized,     \* this._initialized: "unset", "pending" or "resolved"
    lastEvent,       \* what _onDidChangeEnvironments fired last
    initEvents,      \* events fired by initialize() so far
    subscriber,      \* the environments a listener of onDidChangeEnvironments holds
    \* collaborators
    store,           \* workspace persistent state: GLOBAL_SELECTED, WORKSPACE_SELECTED
    disk,            \* the records the native finder reports now
    \* the calls in flight
    task,            \* per caller: operation, position and locals
    ret,             \* outcome of the operation that completed last
    \* bookkeeping
    opsStarted,      \* operations started so far
    extChanges,      \* external changes and restarts so far
    initDiscoveries, \* nativeFinder.refresh(false) calls made by initialize()
    setDone,         \* per scope: what the last completed set() bound, and what happened since
    \* PipenvPackageManager
    packages,        \* this.packages: environment id -> cached list (NoList: no entry)
    installed,       \* the packages really installed in each environment
    lastPkgEvent,    \* what _onDidChangePackages fired last
    pkgSubscriber,   \* per environment: the packages a listener of onDidChangePackages holds
    ptask,           \* per caller: package operation in flight
    pret,            \* outcome of the package operation that completed last
    pkgOpsStarted,   \* package operations started so far
    pkgExt,          \* package changes made by other processes so far
    lastGet,         \* per environment: what the last getPackages returned, if still current
    \* getChanges on its own
    before,          \* argument of getChanges
    after,           \* argument of getChanges
    changes,         \* its result
    diffDone,        \* getChanges has run
    \* registerPipenvFeatures and getPipenv
    pipenvPath,      \* the module variable pipenvPath of pipenvUtils.ts
    pipenvStored,    \* workspace persistent state: PIPENV_PATH_KEY
    host,            \* where a pipenv executable can be found on this machine
    managers,        \* environment managers registered with the api
    missingNotices,  \* calls of notifyMissingManagerIfDefault so far
    regAttempts,     \* calls of registerPipenvFeatures so far
    regRet,          \* what the last call of registerPipenvFeatures did
    \* execution-info resolution
    execInfo,        \* the PythonEnvironmentExecutionInfo of the environment
    shell,           \* the shell type detected for the terminal
    resolved,        \* the mode resolution ran in and the commands it chose
    \* compareVersions on its own
    version1,        \* first argument of compareVersions
    version2,        \* second argument of compareVersions
    compared,        \* its result
    \* mergePackages on its own
    common,          \* first argument of mergePackages: the curated packages
    installedNames,  \* second argument of mergePackages: names of installed packages
    merged,          \* its result
    \* findEnvironmentByPath on its own
    lookupPath,      \* argument of findEnvironmentByPath
    looked,          \* its result
    \* refreshCondaEnvs and getConda
    condaPath,       \* the module variable condaPath of condaUtils.ts
    condaStored,     \* workspace persistent state: CONDA_PATH_KEY
    condaHost,       \* the python.condaPath setting, PATH and the native finder's data
    condaRefreshes,  \* calls of refreshCondaEnvs so far
    condaRet,        \* what the last call of refreshCondaEnvs did
    \* clearPipenvCache and clearCondaCache
    cacheCalls,      \* calls of the cache operations so far
    cacheRet,        \* what the last cache operation did
    \* package-management permissions
    secretStore,     \* SecretStorage: the permission stored for each extension id
    extensions,      \* the extensions allExtensions() lists
    permTask,        \* where checkPackageManagementPermissions stands
    permRet,         \* what the last permissions operation did
    permCalls        \* permissions operations so far

envVars == <<collection, discovered, subscriber, fsPathToEnv, globalEnv, initialized, lastEvent, initEvents, store, disk,
             task, ret, opsStarted, extChanges, initDiscoveries, setDone>>
pkgVars == <<packages, installed, lastPkgEvent, pkgSubscriber, ptask, pret, pkgOpsStarted, pkgExt, lastGet>>
diffVars == <<before, after, changes, diffDone>>
regVars == <<pipenvPath, pipenvStored, host, managers, missingNotices, regAttempts, regRet>>
execVars == <<execInfo, shell, resolved>>
cmpVars == <<version1, version2, compared>>
mergeVars == <<common, installedNames, merged>>
lookupVars == <<lookupPath, looked>>
condaVars == <<condaPath, condaStored, condaHost, condaRefreshes, condaRet>>
cacheVars == <<cacheCalls, cacheRet>>
permVars == <<secretStore, extensions, permTask, permRet, permCalls>>
unitVars == <<regVars, execVars, cmpVars, mergeVars, lookupVars, condaVars, cacheVars, permVars>>
vars == <<envVars, pkgVars, diffVars, unitVars>>

NoEvent == [src |-> "none", changes |-> <<>>, start |-> <<>>, final |-> <<>>]
NoPkgEvent == [src |-> "none", environment |-> "e1", changes |-> <<>>, was |-> <<>>,
               now |-> <<>>]
NoBinding == [p \in Keys |-> NoEnv]
NoData == [p \in Keys |-> NoPath]

IdleTask == [op |-> "none", pc |-> "idle", scope |-> <<>>, env |-> NoEnv,
             discard |-> <<>>, pathSorted |-> <<>>, idx |-> 0, fsPath |-> NoPath,
             data |-> NoData, how |-> "none", expect |-> NoEnv, reloaded |-> FALSE,
             contested |-> FALSE]

NoRet == [op |-> "none", status |-> "none", scope |-> <<>>, env |-> NoEnv,
          result |-> NoEnv, list |-> <<>>, exact |-> NoEnv, project |-> NoEnv,
          global |-> NoEnv, afterSet |-> NoEnv, afterReload |-> NoPath,
          how |-> "none", fired |-> 0, coll |-> <<>>, ws |-> NoData,
          stored |-> NoPath, touched |-> FALSE, quiet |-> FALSE, overlapped |-> FALSE]

\* the scopes of set(): <<>> is undefined (global), one path is a Uri, several are Uri[]
SetScopes == {<<>>, <<P1>>, <<F1>>, <<P1, P2>>}
\* the scopes of get(): <<>> is undefined (global), one path is a Uri
GetScopes == {<<>>, <<P1>>, <<F1>>}
\* the scopes of getEnvironments(): <<>> is 'all', <<GlobalGroup>> is 'global'
GlobalGroup == <<"global">>
GetEnvironmentsScopes == {<<>>, <<F1>>}
\* the contexts of resolve()
ResolveScopes == {<<G>>}

GhostKeys == Keys \cup {NoPath}
NoSetDone == [k \in GhostKeys |-> [env |-> NoEnv, stage |-> 0, clean |-> FALSE,
                                   touched |-> FALSE]]


\* ------------------------------------------------------- PipenvManager
OtherTasks(t) == Tasks \ {t}

\* the key of a get scope in the bookkeeping: the path, or NoPath for undefined
ScopeKey(scope) == IF Len(scope) = 0 THEN NoPath ELSE scope[1]

RefreshInFlight == \E u \in Tasks : task[u].op = "refresh"

\* the keys of a set scope in the bookkeeping
ScopeKeys(scope) == IF Len(scope) = 0 THEN {NoPath} ELSE Range(scope)

\* task u runs a set() on one of the keys of `scope`
SetsSameKey(u, scope) ==
    task[u].op = "set" /\ ScopeKeys(task[u].scope) \cap ScopeKeys(scope) # {}

\* a variant of initialize() that tests whether the first pass is over instead of
\* whether one was started
MustDiscoverUntilResolved(init) == init # "resolved"

\* initialize(): `if (this._initialized)` is false, so this caller runs the discovery
MustDiscover(init) == init = "unset"

\* the entries fired by initialize()
InitArgs(coll) == [i \in 1..Len(coll) |-> [kind |-> "add", environment |-> coll[i]]]

\* a variant of refresh() that reports the difference of the two collections
RefreshArgsDiff(discard, coll) ==
    LET Gone(e) == e \notin Range(coll)
        New(e) == e \notin Range(discard)
        gone == SelectSeq(discard, Gone)
        new == SelectSeq(coll, New)
    IN [i \in 1..Len(gone) |-> [kind |-> "remove", environment |-> gone[i]]]
       \o [i \in 1..Len(new) |-> [kind |-> "add", environment |-> new[i]]]

\* a variant of refresh() that removes only what the new collection lacks
RefreshArgsKeepFound(discard, coll) ==
    LET Gone(e) == e \notin Range(coll)
        gone == SelectSeq(discard, Gone)
    IN [i \in 1..Len(gone) |-> [kind |-> "remove", environment |-> gone[i]]]
       \o [i \in 1..Len(coll) |-> [kind |-> "add", environment |-> coll[i]]]

\* the entries fired by refresh()
RefreshArgs(discard, coll) ==
    [i \in 1..Len(discard) |-> [kind |-> "remove", environment |-> discard[i]]]
    \o [i \in 1..Len(coll) |-> [kind |-> "add", environment |-> coll[i]]]

\* a variant of get() that looks at the owning project before the path itself
GetEnvProjectFirst(scope, map, genv) ==
    IF Len(scope) = 1
    THEN LET project == getPythonProject(scope[1])
         IN IF project # NoPath /\ map[project] # NoEnv THEN map[project]
            ELSE IF map[scope[1]] # NoEnv THEN map[scope[1]] ELSE genv
    ELSE genv

\* PipenvManager.get after `await this.initialize()`
GetEnv(scope, map, genv) ==
    IF Len(scope) = 1
    THEN IF map[scope[1]] # NoEnv THEN map[scope[1]]
         ELSE LET project == getPythonProject(scope[1])
              IN IF project # NoPath /\ map[project] # NoEnv THEN map[project] ELSE genv
    ELSE genv

\* PipenvManager.fromEnvMap
fromEnvMap(uri, map) ==
    IF map[uri] # NoEnv THEN map[uri]
    ELSE LET project == getPythonProject(uri)
         IN IF project # NoPath THEN map[project] ELSE NoEnv

RECURSIVE StableByLength(_, _)
StableByLength(c, I) ==
    IF I = {} THEN <<>>
    ELSE LET i == CHOOSE i \in I : \A j \in I \ {i} :
                      \/ fsPathLength(c[i].path) < fsPathLength(c[j].path)
                      \/ fsPathLength(c[i].path) = fsPathLength(c[j].path) /\ i < j
         IN <<c[i]>> \o StableByLength(c, I \ {i})

\* loadEnvMap: the environments that lie in a project, shortest install path first
PathSortedOf(c) == StableByLength(c, {i \in 1..Len(c) : getPythonProject(c[i].path) # NoPath})

\* loadEnvMap for a project p with no stored binding: the only environment that
\* lies in a project, else the first environment that lies in p, else none
ImplicitEnv(p, pathSorted) ==
    LET Owns(e) == getPythonProject(e.path) = p
    IN IF Len(pathSorted) = 1 THEN pathSorted[1] ELSE FindFirst(pathSorted, Owns)

\* what the caller sees once its operation is over
Outcome(t, status, result, list) ==
    [NoRet EXCEPT !.op = task[t].op, !.status = status,
                  !.scope = task[t].scope, !.env = task[t].env,
                  !.result = result, !.list = list, !.how = task[t].how]

\* callers are interchangeable: "t2" is used only while "t1" is busy
FreeCaller(t, busy) == busy[t].pc = "idle" /\ (t = "t1" \/ busy["t1"].pc # "idle")

StartOp(t) ==
    /\ FreeCaller(t, task)
    /\ opsStarted < MaxOps
    /\ opsStarted' = opsStarted + 1

\* the call of initialize() made by `rec`, an operation that starts with it
EnterInitialize(t, rec) ==
    IF MustDiscover(initialized)
    THEN /\ initialized' = "pending"
         /\ initDiscoveries' = initDiscoveries + 1
         /\ task' = [task EXCEPT ![t] = [rec EXCEPT !.pc = "discover", !.how = "creator"]]
    ELSE /\ task' = [task EXCEPT ![t] =
                       [rec EXCEPT !.pc = "await_init",
                                   !.how = IF initialized = "pending" THEN "waiter"
                                           ELSE "late"]]
         /\ UNCHANGED <<initialized, initDiscoveries>>

NewTask(op, scope, env) ==
    [IdleTask EXCEPT !.op = op, !.scope = scope, !.env = env]

\* a direct call of initialize()
Initialize(t) ==
    /\ StartOp(t)
    /\ EnterInitialize(t, NewTask("init", <<>>, NoEnv))
    /\ ret' = NoRet
    /\ lastEvent' = NoEvent
    /\ UNCHANGED <<collection, discovered, fsPathToEnv, globalEnv, initEvents, store, disk, extChanges, setDone>>
    /\ UNCHANGED <<pkgVars, diffVars, unitVars>>
    /\ subscriber' = ApplyEvent(subscriber, lastEvent')

\* get(scope) up to its first await
Get(t, scope) ==
    /\ StartOp(t)
    /\ LET k == ScopeKey(scope)
       IN EnterInitialize(t, [NewTask("get", scope, NoEnv) EXCEPT
              !.expect = IF setDone[k].clean THEN setDone[k].env ELSE NoEnv,
              !.reloaded = /\ Len(scope) = 1
                           /\ setDone[k].stage = 3
                           /\ \A u \in OtherTasks(t) : task[u].pc = "idle"])
    /\ ret' = NoRet
    /\ lastEvent' = NoEvent
    /\ UNCHANGED <<collection, discovered, fsPathToEnv, globalEnv, initEvents, store, disk, extChanges, setDone>>
    /\ UNCHANGED <<pkgVars, diffVars, unitVars>>
    /\ subscriber' = ApplyEvent(subscriber, lastEvent')

\* getEnvironments(scope) up to its first await
GetEnvironments(t, scope) ==
    /\ StartOp(t)
    /\ EnterInitialize(t, NewTask("getEnvs", scope, NoEnv))
    /\ ret' = NoRet
    /\ lastEvent' = NoEvent
    /\ UNCHANGED <<collection, discovered, fsPathToEnv, globalEnv, initEvents, store, disk, extChanges, setDone>>
    /\ UNCHANGED <<pkgVars, diffVars, unitVars>>
    /\ subscriber' = ApplyEvent(subscriber, lastEvent')

\* resolve(context) up to its first await
Resolve(t, scope) ==
    /\ StartOp(t)
    /\ EnterInitialize(t, NewTask("resolve", scope, NoEnv))
    /\ ret' = NoRet
    /\ lastEvent' = NoEvent
    /\ UNCHANGED <<collection, discovered, fsPathToEnv, globalEnv, initEvents, store, disk, extChanges, setDone>>
    /\ UNCHANGED <<pkgVars, diffVars, unitVars>>
    /\ subscriber' = ApplyEvent(subscriber, lastEvent')

\* refresh(undefined) up to `await this.refreshPipenv(true)`
Refresh(t) ==
    /\ StartOp(t)
    /\ task' = [u \in Tasks |->
                  IF u = t
                  THEN [NewTask("refresh", <<>>, NoEnv) EXCEPT
                           !.pc = "discover", !.discard = collection,
                           !.contested = RefreshInFlight]
                  ELSE IF task[u].op = "refresh" THEN [task[u] EXCEPT !.contested = TRUE]
                  ELSE task[u]]
    /\ ret' = NoRet
    /\ setDone' = [k \in GhostKeys |->
                     [setDone[k] EXCEPT !.clean = FALSE,
                                        !.stage = IF @ = 1 THEN 2 ELSE @]]
    /\ lastEvent' = NoEvent
    /\ UNCHANGED <<collection, discovered, fsPathToEnv, globalEnv, initialized, initEvents, store, disk,
                   extChanges, initDiscoveries>>
    /\ UNCHANGED <<pkgVars, diffVars, unitVars>>
    /\ subscriber' = ApplyEvent(subscriber, lastEvent')

\* the discovery pass is over: fire the event and let the caller go on
FinishPass(t, coll, rec) ==
    IF rec.op = "refresh"
    THEN /\ lastEvent' = [src |-> "refresh",
                          changes |-> RefreshArgs(task[t].discard, coll),
                          start |-> task[t].discard, final |-> coll]
         /\ task' = [task EXCEPT ![t] = IdleTask]
         /\ ret' = [Outcome(t, "ok", NoEnv, <<>>) EXCEPT
                       !.fired = 1,
                       !.overlapped = task[t].contested,
                       !.quiet = \A u \in OtherTasks(t) : task[u].pc = "idle"]
         /\ setDone' = [k \in GhostKeys |->
                          [setDone[k] EXCEPT !.stage = IF @ = 2 THEN 3 ELSE @]]
         /\ UNCHANGED <<initialized, initEvents>>
    ELSE /\ lastEvent' = [src |-> "init", changes |-> InitArgs(coll),
                          start |-> <<>>, final |-> coll]
         /\ initEvents' = initEvents + 1
         /\ initialized' = "resolved"
         /\ task' = [task EXCEPT ![t] = [rec EXCEPT !.pc = "await_init"]]
         /\ ret' = NoRet
         /\ UNCHANGED <<setDone>>

\* a variant of DiscoverDone that keeps the environments held so far ahead of the
\* ones just found
DiscoverDoneKeepsOld(t) ==
    /\ task[t].pc = "discover"
    /\ discovered' = refreshPipenv(disk)
    /\ collection' = collection \o discovered'
    /\ globalEnv' = NoEnv
    /\ fsPathToEnv' = NoBinding
    /\ task' = [task EXCEPT ![t].pc = "lem_global"]
    /\ ret' = NoRet
    /\ lastEvent' = NoEvent
    /\ UNCHANGED <<initialized, initEvents, store, disk, opsStarted, extChanges, initDiscoveries,
                   setDone>>
    /\ UNCHANGED <<pkgVars, diffVars, unitVars>>
    /\ subscriber' = ApplyEvent(subscriber, lastEvent')

\* nativeFinder.refresh answered: refreshPipenv builds the list, the caller stores it
\* and loadEnvMap runs up to `await getPipenvForGlobal()`
DiscoverDone(t) ==
    /\ task[t].pc = "discover"
    /\ collection' = refreshPipenv(disk)
    /\ discovered' = collection'
    /\ globalEnv' = NoEnv
    /\ fsPathToEnv' = NoBinding
    /\ task' = [task EXCEPT ![t].pc = "lem_global"]
    /\ ret' = NoRet
    /\ lastEvent' = NoEvent
    /\ UNCHANGED <<initialized, initEvents, store, disk, opsStarted, extChanges, initDiscoveries,
                   setDone>>
    /\ UNCHANGED <<pkgVars, diffVars, unitVars>>
    /\ subscriber' = ApplyEvent(subscriber, lastEvent')

\* nativeFinder.refresh rejected: refreshPipenv has no handler, the operation is rejected;
\* a refresh() that ends here has written nothing the other refresh() could compete with
DiscoverFail(t) ==
    /\ task[t].pc = "discover"
    /\ task' = [u \in Tasks |->
                  IF u = t THEN IdleTask
                  ELSE IF task[t].op = "refresh" /\ task[u].op = "refresh"
                       THEN [task[u] EXCEPT !.contested = FALSE]
                  ELSE task[u]]
    /\ ret' = Outcome(t, "rejected", NoEnv, <<>>)
    /\ lastEvent' = NoEvent
    /\ UNCHANGED <<collection, discovered, fsPathToEnv, globalEnv, initialized, initEvents, store, disk,
                   opsStarted, extChanges, initDiscoveries, setDone>>
    /\ UNCHANGED <<pkgVars, diffVars, unitVars>>
    /\ subscriber' = ApplyEvent(subscriber, lastEvent')

\* AfterGlobal with the last environment of the collection as the fallback
AfterGlobalLast(t, coll, genv) ==
    /\ globalEnv' = IF genv = NoEnv
                    THEN IF Len(coll) = 0 THEN NoEnv ELSE coll[Len(coll)]
                    ELSE genv
    /\ task' = [task EXCEPT ![t].pc = "lem_ws", ![t].idx = 1,
                            ![t].pathSorted = PathSortedOf(coll), ![t].fsPath = NoPath]

\* loadEnvMap from `if (!this.globalEnv)` up to the first `await getPipenvForWorkspace(p)`
AfterGlobal(t, coll, genv) ==
    /\ globalEnv' = IF genv = NoEnv THEN getLatest(coll) ELSE genv
    /\ task' = [task EXCEPT ![t].pc = "lem_ws", ![t].idx = 1,
                            ![t].pathSorted = PathSortedOf(coll), ![t].fsPath = NoPath]

\* getPipenvForGlobal answered
LemGlobal(t) ==
    /\ task[t].pc = "lem_global"
    /\ LET fsPath == store.global
           found == IF fsPath # NoPath THEN findEnvironmentByPath(collection, fsPath)
                    ELSE NoEnv
       IN IF fsPath # NoPath /\ found = NoEnv
          THEN /\ task' = [task EXCEPT ![t].pc = "lem_gresolve", ![t].fsPath = fsPath]
               /\ globalEnv' = NoEnv
          ELSE AfterGlobal(t, collection, found)
    /\ ret' = NoRet
    /\ lastEvent' = NoEvent
    /\ UNCHANGED <<collection, discovered, fsPathToEnv, initialized, initEvents, store, disk, opsStarted,
                   extChanges, initDiscoveries, setDone>>
    /\ UNCHANGED <<pkgVars, diffVars, unitVars>>
    /\ subscriber' = ApplyEvent(subscriber, lastEvent')

\* what nativeFinder.resolve(fsPath) followed by the validity test yields
Resolved(fsPath) ==
    {EnvOf(r) : r \in {q \in disk : q.prefix = fsPath /\ IsComplete(q)}}

\* nativeFinder.resolve(fsPath) for the stored global selection answered
LemGlobalResolve(t) ==
    /\ task[t].pc = "lem_gresolve"
    /\ \/ \E env \in Resolved(task[t].fsPath) :
            /\ collection' = Append(collection, env)
            /\ AfterGlobal(t, collection', env)
       \/ /\ Resolved(task[t].fsPath) = {}
          /\ collection' = collection
          /\ AfterGlobal(t, collection, NoEnv)
    /\ ret' = NoRet
    /\ lastEvent' = NoEvent
    /\ UNCHANGED <<discovered, fsPathToEnv, initialized, initEvents, store, disk, opsStarted,
                   extChanges, initDiscoveries, setDone>>
    /\ UNCHANGED <<pkgVars, diffVars, unitVars>>
    /\ subscriber' = ApplyEvent(subscriber, lastEvent')

\* the loop of loadEnvMap moves to the next project, or loadEnvMap returns
NextProject(t, coll) ==
    IF task[t].idx < Len(Projects)
    THEN /\ task' = [task EXCEPT ![t].idx = @ + 1, ![t].pc = "lem_ws", ![t].fsPath = NoPath]
         /\ ret' = NoRet
         /\ lastEvent' = NoEvent
         /\ UNCHANGED <<initEvents, initialized, setDone>>
    ELSE FinishPass(t, coll, [task[t] EXCEPT !.pathSorted = <<>>, !.idx = 0,
                                            !.fsPath = NoPath, !.discard = <<>>])

\* getPipenvForWorkspace(p) answered
LemWorkspace(t) ==
    /\ task[t].pc = "lem_ws"
    /\ LET p == Projects[task[t].idx]
           envPath == store.ws[p]
           found == findEnvironmentByPath(collection, envPath)
           pathSorted == task[t].pathSorted
           implicit == ImplicitEnv(p, pathSorted)
       IN IF envPath # NoPath
          THEN IF found # NoEnv
               THEN /\ fsPathToEnv' = [fsPathToEnv EXCEPT ![p] = found]
                    /\ NextProject(t, collection)
               ELSE /\ task' = [task EXCEPT ![t].pc = "lem_wsresolve", ![t].fsPath = envPath]
                    /\ ret' = NoRet
                    /\ lastEvent' = NoEvent
                    /\ UNCHANGED <<fsPathToEnv, initEvents, initialized, setDone>>
          ELSE /\ fsPathToEnv' = IF implicit # NoEnv
                                  THEN [fsPathToEnv EXCEPT ![p] = implicit]
                                  ELSE fsPathToEnv
               /\ NextProject(t, collection)
    /\ UNCHANGED <<collection, discovered, globalEnv, store, disk, opsStarted, extChanges,
                   initDiscoveries>>
    /\ UNCHANGED <<pkgVars, diffVars, unitVars>>
    /\ subscriber' = ApplyEvent(subscriber, lastEvent')

\* getPipenvVenv(p) and nativeFinder.resolve(resolvedEnvPath) answered for a stored
\* binding that is not in the collection
LemWorkspaceResolve(t) ==
    /\ task[t].pc = "lem_wsresolve"
    /\ LET p == Projects[task[t].idx]
       IN \E venv \in {NoPath} \cup {r.prefix : r \in disk} :
            LET resolvedEnvPath == IF venv # NoPath THEN venv ELSE task[t].fsPath
            IN \/ \E env \in Resolved(resolvedEnvPath) :
                    /\ fsPathToEnv' = [fsPathToEnv EXCEPT ![p] = env]
                    /\ collection' = Append(collection, env)
                    /\ NextProject(t, collection')
               \/ /\ Resolved(resolvedEnvPath) = {}
                  /\ UNCHANGED <<fsPathToEnv, collection>>
                  /\ NextProject(t, collection)
    /\ UNCHANGED <<discovered, globalEnv, store, disk, opsStarted, extChanges, initDiscoveries>>
    /\ UNCHANGED <<pkgVars, diffVars, unitVars>>
    /\ subscriber' = ApplyEvent(subscriber, lastEvent')


\* the promise of initialize() is fulfilled and the continuation of the caller runs
Initialized(t, op) ==
    /\ task[t].pc = "await_init"
    /\ task[t].op = op
    /\ initialized = "resolved"

\* initialize() called directly returns
InitializeReturn(t) ==
    /\ Initialized(t, "init")
    /\ task' = [task EXCEPT ![t] = IdleTask]
    /\ ret' = Outcome(t, "ok", NoEnv, <<>>)
    /\ lastEvent' = NoEvent
    /\ UNCHANGED <<collection, discovered, fsPathToEnv, globalEnv, initialized, initEvents, store, disk,
                   opsStarted, extChanges, initDiscoveries, setDone>>
    /\ UNCHANGED <<pkgVars, diffVars, unitVars>>
    /\ subscriber' = ApplyEvent(subscriber, lastEvent')

\* get(scope) after `await this.initialize()`
GetReturn(t) ==
    /\ Initialized(t, "get")
    /\ LET scope == task[t].scope
           k == ScopeKey(scope)
           project == IF Len(scope) = 1 THEN getPythonProject(scope[1]) ELSE NoPath
       IN ret' = [Outcome(t, "ok", GetEnv(scope, fsPathToEnv, globalEnv), <<>>) EXCEPT
                 !.exact = IF Len(scope) = 1 THEN fsPathToEnv[scope[1]] ELSE NoEnv,
                 !.project = IF project # NoPath THEN fsPathToEnv[project] ELSE NoEnv,
                 !.global = globalEnv,
                 !.coll = collection,
                 !.ws = store.ws,
                 !.stored = store.global,
                 !.touched = setDone[NoPath].touched,
                 !.quiet = \A u \in OtherTasks(t) : task[u].pc = "idle",
                 !.afterSet = IF setDone[k].clean /\ setDone[k].env = task[t].expect
                              THEN task[t].expect ELSE NoEnv,
                 !.afterReload =
                     IF /\ task[t].reloaded
                        /\ setDone[k].stage = 3
                        /\ \A u \in OtherTasks(t) : task[u].pc = "idle"
                        /\ \E e \in Range(collection) : e.path = setDone[k].env.path
                     THEN setDone[k].env.path ELSE NoPath]
    /\ task' = [task EXCEPT ![t] = IdleTask]
    /\ lastEvent' = NoEvent
    /\ UNCHANGED <<collection, discovered, fsPathToEnv, globalEnv, initialized, initEvents, store, disk,
                   opsStarted, extChanges, initDiscoveries, setDone>>
    /\ UNCHANGED <<pkgVars, diffVars, unitVars>>
    /\ subscriber' = ApplyEvent(subscriber, lastEvent')

\* getEnvironments(scope) after `await this.initialize()`; no environment of this
\* manager carries the group 'Global'
GetEnvironmentsReturn(t) ==
    /\ Initialized(t, "getEnvs")
    /\ LET scope == task[t].scope
           env == fromEnvMap(scope[1], fsPathToEnv)
           list == IF scope = <<>> THEN collection
                   ELSE IF scope = <<GlobalGroup>> THEN <<>>
                   ELSE IF env # NoEnv THEN <<env>> ELSE <<>>
       IN ret' = Outcome(t, "ok", NoEnv, list)
    /\ task' = [task EXCEPT ![t] = IdleTask]
    /\ lastEvent' = NoEvent
    /\ UNCHANGED <<collection, discovered, fsPathToEnv, globalEnv, initialized, initEvents, store, disk,
                   opsStarted, extChanges, initDiscoveries, setDone>>
    /\ UNCHANGED <<pkgVars, diffVars, unitVars>>
    /\ subscriber' = ApplyEvent(subscriber, lastEvent')

\* resolve(context) after `await this.initialize()`, up to `await nativeFinder.resolve`
ResolveCall(t) ==
    /\ Initialized(t, "resolve")
    /\ task' = [task EXCEPT ![t].pc = "res_io"]
    /\ ret' = NoRet
    /\ lastEvent' = NoEvent
    /\ UNCHANGED <<collection, discovered, fsPathToEnv, globalEnv, initialized, initEvents, store, disk,
                   opsStarted, extChanges, initDiscoveries, setDone>>
    /\ UNCHANGED <<pkgVars, diffVars, unitVars>>
    /\ subscriber' = ApplyEvent(subscriber, lastEvent')

\* a variant of resolve() that registers what it resolved without looking it up
ResolveReturnUnchecked(t) ==
    /\ task[t].pc = "res_io"
    /\ \/ \E env \in Resolved(task[t].scope[1]) :
            /\ collection' = Append(collection, env)
            /\ lastEvent' =
                  [src |-> "resolve",
                   changes |-> <<[kind |-> "add", environment |-> env]>>,
                   start |-> collection, final |-> collection']
            /\ UNCHANGED initEvents
            /\ ret' = Outcome(t, "ok", env, <<>>)
       \/ /\ Resolved(task[t].scope[1]) = {}
          /\ ret' = Outcome(t, "ok", NoEnv, <<>>)
          /\ lastEvent' = NoEvent
          /\ UNCHANGED <<collection, initEvents>>
    /\ task' = [task EXCEPT ![t] = IdleTask]
    /\ UNCHANGED <<discovered, fsPathToEnv, globalEnv, initialized, store, disk,
                   opsStarted, extChanges, initDiscoveries, setDone>>
    /\ UNCHANGED <<pkgVars, diffVars, unitVars>>
    /\ subscriber' = ApplyEvent(subscriber, lastEvent')

\* resolvePipenvPath answered
ResolveReturn(t) ==
    /\ task[t].pc = "res_io"
    /\ \/ \E env \in Resolved(task[t].scope[1]) :
            LET collectionEnv == findEnvironmentByPath(collection, env.path)
            IN IF collectionEnv # NoEnv
               THEN /\ ret' = Outcome(t, "ok", collectionEnv, <<>>)
                    /\ lastEvent' = NoEvent
                    /\ UNCHANGED <<collection, initEvents>>
               ELSE /\ collection' = Append(collection, env)
                    /\ lastEvent' =
                          [src |-> "resolve",
                           changes |-> <<[kind |-> "add", environment |-> env]>>,
                           start |-> collection, final |-> collection']
                    /\ UNCHANGED initEvents
                    /\ ret' = Outcome(t, "ok", env, <<>>)
       \/ /\ Resolved(task[t].scope[1]) = {}
          /\ ret' = Outcome(t, "ok", NoEnv, <<>>)
          /\ lastEvent' = NoEvent
          /\ UNCHANGED <<collection, initEvents>>
    /\ task' = [task EXCEPT ![t] = IdleTask]
    /\ UNCHANGED <<discovered, fsPathToEnv, globalEnv, initialized, store, disk,
                   opsStarted, extChanges, initDiscoveries, setDone>>
    /\ UNCHANGED <<pkgVars, diffVars, unitVars>>
    /\ subscriber' = ApplyEvent(subscriber, lastEvent')

\* set(scope, environment) up to the first read or write of the persistent state;
\* the caller passes an environment it got from this manager, or undefined
Set(t, scope, env) ==
    /\ StartOp(t)
    /\ env \in Range(collection) \cup {NoEnv}
    /\ task' = [u \in Tasks |->
                  IF u = t
                  THEN [NewTask("set", scope, env) EXCEPT
                           !.pc = IF Len(scope) = 0 THEN "set_global" ELSE "set_read",
                           !.contested = \E v \in OtherTasks(t) : SetsSameKey(v, scope)]
                  ELSE IF SetsSameKey(u, scope) THEN [task[u] EXCEPT !.contested = TRUE]
                  ELSE task[u]]
    /\ ret' = NoRet
    /\ setDone' = [k \in GhostKeys |->
                     IF k \in ScopeKeys(scope)
                     THEN [env |-> NoEnv, stage |-> 0, clean |-> FALSE, touched |-> k = NoPath]
                     ELSE setDone[k]]
    /\ lastEvent' = NoEvent
    /\ UNCHANGED <<collection, discovered, fsPathToEnv, globalEnv, initialized, initEvents, store, disk,
                   extChanges, initDiscoveries>>
    /\ UNCHANGED <<pkgVars, diffVars, unitVars>>
    /\ subscriber' = ApplyEvent(subscriber, lastEvent')

\* setPipenvForGlobal: state.set(PIPENV_GLOBAL_KEY, path)
SetGlobalWrite(t) ==
    /\ task[t].pc = "set_global"
    /\ store' = [store EXCEPT !.global = task[t].env.path]
    /\ task' = [task EXCEPT ![t].pc = "set_mem"]
    /\ ret' = NoRet
    /\ lastEvent' = NoEvent
    /\ UNCHANGED <<collection, discovered, fsPathToEnv, globalEnv, initialized, initEvents, disk, opsStarted,
                   extChanges, initDiscoveries, setDone>>
    /\ UNCHANGED <<pkgVars, diffVars, unitVars>>
    /\ subscriber' = ApplyEvent(subscriber, lastEvent')

\* setPipenvForWorkspace / setPipenvForWorkspaces: state.get(PIPENV_WORKSPACE_KEY) ?? {}
SetWorkspaceRead(t) ==
    /\ task[t].pc = "set_read"
    /\ task' = [task EXCEPT ![t].pc = "set_write", ![t].data = store.ws]
    /\ ret' = NoRet
    /\ lastEvent' = NoEvent
    /\ UNCHANGED <<collection, discovered, fsPathToEnv, globalEnv, initialized, initEvents, store, disk,
                   opsStarted, extChanges, initDiscoveries, setDone>>
    /\ UNCHANGED <<pkgVars, diffVars, unitVars>>
    /\ subscriber' = ApplyEvent(subscriber, lastEvent')

\* the map setPipenvForWorkspace(s) writes back: data[s] = envPath, or delete data[s]
WorkspaceData(data, scope, envPath) ==
    [p \in Keys |-> IF p \in Range(scope) THEN envPath ELSE data[p]]

\* setPipenvForWorkspace / setPipenvForWorkspaces: state.set(PIPENV_WORKSPACE_KEY, data)
SetWorkspaceWrite(t) ==
    /\ task[t].pc = "set_write"
    /\ store' = [store EXCEPT
                   !.ws = WorkspaceData(task[t].data, task[t].scope, task[t].env.path)]
    /\ task' = [task EXCEPT ![t].pc = "set_mem", ![t].data = NoData]
    /\ ret' = NoRet
    /\ lastEvent' = NoEvent
    /\ UNCHANGED <<collection, discovered, fsPathToEnv, globalEnv, initialized, initEvents, disk, opsStarted,
                   extChanges, initDiscoveries, setDone>>
    /\ UNCHANGED <<pkgVars, diffVars, unitVars>>
    /\ subscriber' = ApplyEvent(subscriber, lastEvent')

\* set() after the persistent state was written: the in-memory selection
SetReturn(t) ==
    /\ task[t].pc = "set_mem"
    /\ LET scope == task[t].scope
           env == task[t].env
       IN /\ IF Len(scope) = 0
             THEN /\ globalEnv' = env
                  /\ UNCHANGED fsPathToEnv
             ELSE /\ fsPathToEnv' = [p \in Keys |->
                                       IF p \in Range(scope) THEN env ELSE fsPathToEnv[p]]
                  /\ UNCHANGED globalEnv
          /\ setDone' = [k \in GhostKeys |->
                IF k \in ScopeKeys(scope)
                THEN IF env = NoEnv \/ task[t].contested
                     THEN [env |-> NoEnv, stage |-> 0, clean |-> FALSE, touched |-> k = NoPath]
                     ELSE [env |-> env, stage |-> 1, clean |-> ~RefreshInFlight,
                           touched |-> k = NoPath]
                ELSE setDone[k]]
    /\ ret' = Outcome(t, "ok", NoEnv, <<>>)
    /\ task' = [task EXCEPT ![t] = IdleTask]
    /\ lastEvent' = NoEvent
    /\ UNCHANGED <<collection, discovered, initialized, initEvents, store, disk, opsStarted, extChanges,
                   initDiscoveries>>
    /\ UNCHANGED <<pkgVars, diffVars, unitVars>>
    /\ subscriber' = ApplyEvent(subscriber, lastEvent')

\* another process creates or deletes an installation
ExternalChange(r) ==
    /\ extChanges < MaxExt
    /\ extChanges' = extChanges + 1
    /\ disk' = IF r \in disk THEN disk \ {r} ELSE disk \cup {r}
    /\ ret' = NoRet
    /\ lastEvent' = NoEvent
    /\ UNCHANGED <<collection, discovered, fsPathToEnv, globalEnv, initialized, initEvents, store, task,
                   opsStarted, initDiscoveries, setDone>>
    /\ UNCHANGED <<pkgVars, diffVars, unitVars>>
    /\ subscriber' = ApplyEvent(subscriber, lastEvent')

\* the extension host restarts: a new PipenvManager over the same persistent state
Restart ==
    /\ \A t \in Tasks : task[t].pc = "idle"
    /\ opsStarted > 0
    /\ extChanges < MaxExt
    /\ extChanges' = extChanges + 1
    /\ collection' = <<>>
    /\ discovered' = <<>>
    /\ fsPathToEnv' = NoBinding
    /\ globalEnv' = NoEnv
    /\ initialized' = "unset"
    /\ lastEvent' = NoEvent
    /\ initEvents' = 0
    /\ initDiscoveries' = 0
    /\ ret' = NoRet
    /\ setDone' = [k \in GhostKeys |->
                     [setDone[k] EXCEPT !.clean = FALSE, !.touched = FALSE,
                                        !.stage = IF @ >= 1 THEN 3 ELSE @]]
    /\ UNCHANGED <<store, disk, task, opsStarted>>
    /\ UNCHANGED <<pkgVars, diffVars, unitVars>>
    /\ subscriber' = {}


\* dispose(): the collection and the path bindings are dropped, the global
\* environment and the initialization guard are kept
Dispose ==
    /\ extChanges < MaxExt      \* bound: dispose calls count with the outside changes
    /\ extChanges' = extChanges + 1
    /\ collection' = <<>>
    /\ fsPathToEnv' = NoBinding
    /\ lastEvent' = NoEvent
    /\ ret' = NoRet
    /\ setDone' = [k \in GhostKeys |->
                     [setDone[k] EXCEPT !.clean = FALSE, !.touched = FALSE,
                                        !.stage = IF @ >= 1 THEN 3 ELSE @]]
    /\ UNCHANGED <<discovered, globalEnv, initialized, initEvents, store, disk, task,
                   opsStarted, initDiscoveries>>
    /\ UNCHANGED <<pkgVars, diffVars, unitVars>>
    /\ subscriber' = ApplyEvent(subscriber, lastEvent')

\* ------------------------------------------------- PipenvPackageManager
\* environment ids and package names
PkgEnvs == {"e1", "e2"}
PkgNames == {"numpy", "requests"}
DiffNames == {"a", "b", "c"}

NameRank(n) == CASE n = "a" -> 1 [] n = "b" -> 2 [] n = "c" -> 3
                 [] n = "numpy" -> 4 [] n = "requests" -> 5 [] OTHER -> 0

RECURSIVE SortedNames(_)
\* `pip list` prints the installed packages in alphabetical order
SortedNames(S) ==
    IF S = {} THEN <<>>
    ELSE LET n == CHOOSE n \in S : \A m \in S : NameRank(n) <= NameRank(m)
         IN <<n>> \o SortedNames(S \ {n})

\* what a listener of onDidChangePackages holds after an event: for the environment
\* of the event it drops the packages of the remove entries, then takes in those of
\* the add entries
ApplyPkgEvent(held, event) ==
    [held EXCEPT ![event.environment] =
        (@ \ {event.changes[i].pkg :
                  i \in {j \in 1..Len(event.changes) : event.changes[j].kind = "remove"}})
        \cup {event.changes[i].pkg :
                  i \in {j \in 1..Len(event.changes) : event.changes[j].kind = "add"}}]

\* getChanges(before, after) of main.ts
getChanges(b, a) ==
    [i \in 1..Len(b) |-> [kind |-> "remove", pkg |-> b[i]]]
    \o [i \in 1..Len(a) |-> [kind |-> "add", pkg |-> a[i]]]

NoCache == [has |-> FALSE, list |-> <<>>]

\* a variant of getPackages() that never finds its cache entry
CacheNeverHit(cache) == FALSE

\* this.packages.has(environment.envId.id)
CacheHit(cache) == cache.has

\* this.packages.get(environment.envId.id) ?? []
CachedOrEmpty(cache) == IF cache.has THEN cache.list ELSE <<>>

IdlePTask == [op |-> "none", pc |-> "idle", env |-> "e1", before |-> <<>>,
              install |-> {}, uninstall |-> {}, calls |-> 0, cold |-> FALSE,
              entry |-> NoCache, disturbed |-> FALSE, cmds |-> <<>>]

NoPRet == [op |-> "none", status |-> "none", env |-> "e1", result |-> NoCache,
           stored |-> NoCache,
           calls |-> 0, cold |-> FALSE, prev |-> [valid |-> FALSE, list |-> <<>>],
           fired |-> 0, install |-> {}, uninstall |-> {}, entry |-> NoCache,
           disturbed |-> FALSE, cmds |-> <<>>, failure |-> "none", logged |-> 0]

NoLastGet == [e \in PkgEnvs |-> [valid |-> FALSE, list |-> <<>>]]

StartPkgOp(t) ==
    /\ FreeCaller(t, ptask)
    /\ pkgOpsStarted < MaxPkgOps
    /\ pkgOpsStarted' = pkgOpsStarted + 1
    /\ pret' = NoPRet
    /\ lastPkgEvent' = NoPkgEvent

\* the locals of a call; `entry` is the cache entry of the environment when the call
\* is made
NewPTask(op, e) ==
    [IdlePTask EXCEPT !.op = op, !.env = e,
                      !.cold = ~packages[e].has, !.entry = packages[e]]

\* what the caller sees once its operation is over: `failure` names the step that
\* failed, `logged` counts the calls of this.log.error
POutcome(t, status, result, fired, failure, logged) ==
    [NoPRet EXCEPT !.op = ptask[t].op, !.status = status,
                   !.env = ptask[t].env, !.result = result, !.calls = ptask[t].calls,
                   !.cold = ptask[t].cold, !.prev = lastGet[ptask[t].env],
                   !.fired = fired, !.install = ptask[t].install,
                   !.uninstall = ptask[t].uninstall, !.entry = ptask[t].entry,
                   !.disturbed = ptask[t].disturbed, !.cmds = ptask[t].cmds,
                   !.failure = failure, !.logged = logged]

\* refresh(environment) up to `await getPipenv()`
PkgRefresh(t, e) ==
    /\ StartPkgOp(t)
    /\ ptask' = [ptask EXCEPT ![t] = [NewPTask("refresh", e) EXCEPT !.pc = "getPipenv"]]
    /\ UNCHANGED <<packages, installed, pkgExt, lastGet>>
    /\ UNCHANGED <<envVars, diffVars, unitVars>>
    /\ pkgSubscriber' = ApplyPkgEvent(pkgSubscriber, lastPkgEvent')

\* getPackages(environment) with no cache entry: it calls refresh(environment)
PkgGetPackagesMiss(t, e) ==
    /\ StartPkgOp(t)
    /\ ~CacheHit(packages[e])
    /\ ptask' = [ptask EXCEPT ![t] = [NewPTask("getPackages", e) EXCEPT !.pc = "getPipenv"]]
    /\ UNCHANGED <<packages, installed, pkgExt, lastGet>>
    /\ UNCHANGED <<envVars, diffVars, unitVars>>
    /\ pkgSubscriber' = ApplyPkgEvent(pkgSubscriber, lastPkgEvent')

\* getPackages(environment) with a cache entry: it returns the entry
PkgGetPackagesHit(t, e) ==
    /\ FreeCaller(t, ptask)
    /\ pkgOpsStarted < MaxPkgOps
    /\ pkgOpsStarted' = pkgOpsStarted + 1
    /\ CacheHit(packages[e])
    /\ pret' = [NoPRet EXCEPT !.op = "getPackages", !.status = "ok", !.env = e,
                               !.result = packages[e], !.stored = packages[e],
                               !.prev = lastGet[e], !.entry = packages[e]]
    /\ lastGet' = [lastGet EXCEPT ![e] = [valid |-> TRUE, list |-> packages[e].list]]
    /\ lastPkgEvent' = NoPkgEvent
    /\ UNCHANGED <<packages, installed, ptask, pkgExt>>
    /\ UNCHANGED <<envVars, diffVars, unitVars>>
    /\ pkgSubscriber' = ApplyPkgEvent(pkgSubscriber, lastPkgEvent')

\* manage(environment, options) up to `await getPipenv()`
PkgManage(t, e, install, uninstall) ==
    /\ StartPkgOp(t)
    /\ ptask' = [ptask EXCEPT ![t] =
                   [NewPTask("manage", e) EXCEPT !.pc = "getPipenv", !.install = install,
                                                 !.uninstall = uninstall]]
    /\ UNCHANGED <<packages, installed, pkgExt, lastGet>>
    /\ UNCHANGED <<envVars, diffVars, unitVars>>
    /\ pkgSubscriber' = ApplyPkgEvent(pkgSubscriber, lastPkgEvent')

\* getPipenv() found no executable: `throw new Error('Pipenv not found')`
PipenvNotFound(t) ==
    /\ ptask[t].pc = "getPipenv"
    /\ pret' = [POutcome(t, "rejected", NoCache, 0, "getPipenv", 0) EXCEPT
                   !.stored = packages[ptask[t].env]]
    /\ ptask' = [ptask EXCEPT ![t] = IdlePTask]
    /\ lastPkgEvent' = NoPkgEvent
    /\ UNCHANGED <<packages, installed, pkgOpsStarted, pkgExt, lastGet>>
    /\ UNCHANGED <<envVars, diffVars, unitVars>>
    /\ pkgSubscriber' = ApplyPkgEvent(pkgSubscriber, lastPkgEvent')

\* getPipenv() answered in refresh(): read `before`, start `pipenv run pip list`
RefreshList(t) ==
    /\ ptask[t].pc = "getPipenv"
    /\ ptask[t].op \in {"refresh", "getPackages"}
    /\ ptask' = [ptask EXCEPT ![t].pc = "list",
                              ![t].before = CachedOrEmpty(packages[ptask[t].env]),
                              ![t].calls = @ + 1,
                              ![t].cmds = Append(@, "list")]
    /\ pret' = NoPRet
    /\ lastPkgEvent' = NoPkgEvent
    /\ UNCHANGED <<packages, installed, pkgOpsStarted, pkgExt, lastGet>>
    /\ UNCHANGED <<envVars, diffVars, unitVars>>
    /\ pkgSubscriber' = ApplyPkgEvent(pkgSubscriber, lastPkgEvent')

\* a variant of ManageNothing that goes on to list the packages
ManageNothingLists(t) ==
    /\ ptask[t].pc = "getPipenv"
    /\ ptask[t].op = "manage"
    /\ ptask[t].install = {} /\ ptask[t].uninstall = {}
    /\ ptask' = [ptask EXCEPT ![t].pc = "list",
                              ![t].before = CachedOrEmpty(packages[ptask[t].env]),
                              ![t].calls = @ + 1,
                              ![t].cmds = Append(@, "list")]
    /\ pret' = NoPRet
    /\ lastPkgEvent' = NoPkgEvent
    /\ UNCHANGED <<packages, installed, pkgOpsStarted, pkgExt, lastGet>>
    /\ UNCHANGED <<envVars, diffVars, unitVars>>
    /\ pkgSubscriber' = ApplyPkgEvent(pkgSubscriber, lastPkgEvent')

\* getPipenv() answered in manage() with nothing to install or uninstall: return
ManageNothing(t) ==
    /\ ptask[t].pc = "getPipenv"
    /\ ptask[t].op = "manage"
    /\ ptask[t].install = {} /\ ptask[t].uninstall = {}
    /\ pret' = [POutcome(t, "ok", NoCache, 0, "none", 0) EXCEPT
                   !.stored = packages[ptask[t].env]]
    /\ ptask' = [ptask EXCEPT ![t] = IdlePTask]
    /\ lastPkgEvent' = NoPkgEvent
    /\ UNCHANGED <<packages, installed, pkgOpsStarted, pkgExt, lastGet>>
    /\ UNCHANGED <<envVars, diffVars, unitVars>>
    /\ pkgSubscriber' = ApplyPkgEvent(pkgSubscriber, lastPkgEvent')

\* a variant of NextManageStep that installs before it uninstalls
NextManageStepInstallFirst(t, done) ==
    IF done = "start" /\ ptask[t].install # {}
    THEN [ptask[t] EXCEPT !.pc = "install", !.cmds = Append(@, "install")]
    ELSE IF done \in {"start", "install"} /\ ptask[t].uninstall # {}
         THEN [ptask[t] EXCEPT !.pc = "uninstall", !.cmds = Append(@, "uninstall")]
    ELSE [ptask[t] EXCEPT !.pc = "list", !.calls = @ + 1, !.cmds = Append(@, "list")]

\* the step of managePipenvPackages that follows `done`; `cmds` lists the pipenv
\* commands the call has started
NextManageStep(t, done) ==
    IF done = "start" /\ ptask[t].uninstall # {}
    THEN [ptask[t] EXCEPT !.pc = "uninstall", !.cmds = Append(@, "uninstall")]
    ELSE IF done \in {"start", "uninstall"} /\ ptask[t].install # {}
         THEN [ptask[t] EXCEPT !.pc = "install", !.cmds = Append(@, "install")]
    ELSE [ptask[t] EXCEPT !.pc = "list", !.calls = @ + 1, !.cmds = Append(@, "list")]

\* getPipenv() answered in manage(): read `before`, start the first pipenv command
ManageStart(t) ==
    /\ ptask[t].pc = "getPipenv"
    /\ ptask[t].op = "manage"
    /\ ptask[t].install # {} \/ ptask[t].uninstall # {}
    /\ ptask' = [ptask EXCEPT ![t] =
                   [NextManageStep(t, "start") EXCEPT
                       !.before = CachedOrEmpty(packages[ptask[t].env])]]
    /\ pret' = NoPRet
    /\ lastPkgEvent' = NoPkgEvent
    /\ UNCHANGED <<packages, installed, pkgOpsStarted, pkgExt, lastGet>>
    /\ UNCHANGED <<envVars, diffVars, unitVars>>
    /\ pkgSubscriber' = ApplyPkgEvent(pkgSubscriber, lastPkgEvent')

\* `pipenv uninstall` ended well
UninstallDone(t) ==
    /\ ptask[t].pc = "uninstall"
    /\ installed' = [installed EXCEPT ![ptask[t].env] = @ \ ptask[t].uninstall]
    /\ ptask' = [ptask EXCEPT ![t] = NextManageStep(t, "uninstall")]
    /\ pret' = NoPRet
    /\ lastPkgEvent' = NoPkgEvent
    /\ UNCHANGED <<packages, pkgOpsStarted, pkgExt, lastGet>>
    /\ UNCHANGED <<envVars, diffVars, unitVars>>
    /\ pkgSubscriber' = ApplyPkgEvent(pkgSubscriber, lastPkgEvent')

\* `pipenv install` ended well
InstallDone(t) ==
    /\ ptask[t].pc = "install"
    /\ installed' = [installed EXCEPT ![ptask[t].env] = @ \cup ptask[t].install]
    /\ ptask' = [ptask EXCEPT ![t] = NextManageStep(t, "install")]
    /\ pret' = NoPRet
    /\ lastPkgEvent' = NoPkgEvent
    /\ UNCHANGED <<packages, pkgOpsStarted, pkgExt, lastGet>>
    /\ UNCHANGED <<envVars, diffVars, unitVars>>
    /\ pkgSubscriber' = ApplyPkgEvent(pkgSubscriber, lastPkgEvent')

\* what the pipenv command of step pc does to the installed set S when it runs to
\* its end
CommandEffect(t, S) ==
    IF ptask[t].pc = "uninstall" THEN S \ ptask[t].uninstall ELSE S \cup ptask[t].install

\* a variant of ManageFail that drops the cache entry of the environment
ManageFailDropsCache(t, how, applied) ==
    /\ ptask[t].pc \in {"uninstall", "install"}
    /\ packages' = [packages EXCEPT ![ptask[t].env] = NoCache]
    /\ installed' = [installed EXCEPT ![ptask[t].env] =
                        IF applied THEN CommandEffect(t, @) ELSE @]
    /\ pret' = [POutcome(t, how, NoCache, 0, ptask[t].pc,
                         IF how = "cancelled" THEN 0 ELSE 1) EXCEPT
                   !.stored = packages'[ptask[t].env]]
    /\ ptask' = [ptask EXCEPT ![t] = IdlePTask]
    /\ lastPkgEvent' = NoPkgEvent
    /\ UNCHANGED <<pkgOpsStarted, pkgExt, lastGet>>
    /\ UNCHANGED <<envVars, diffVars, unitVars>>
    /\ pkgSubscriber' = ApplyPkgEvent(pkgSubscriber, lastPkgEvent')

\* a pipenv command of manage() failed (how = "rejected") or was cancelled through the
\* token (how = "cancelled"), having changed the environment or not: the catch block
\* of manage() rethrows, and logs everything but a CancellationError
ManageFail(t, how, applied) ==
    /\ ptask[t].pc \in {"uninstall", "install"}
    /\ installed' = [installed EXCEPT ![ptask[t].env] =
                        IF applied THEN CommandEffect(t, @) ELSE @]
    /\ pret' = [POutcome(t, how, NoCache, 0, ptask[t].pc,
                         IF how = "cancelled" THEN 0 ELSE 1) EXCEPT
                   !.stored = packages[ptask[t].env]]
    /\ ptask' = [ptask EXCEPT ![t] = IdlePTask]
    /\ lastPkgEvent' = NoPkgEvent
    /\ UNCHANGED <<packages, pkgOpsStarted, pkgExt, lastGet>>
    /\ UNCHANGED <<envVars, diffVars, unitVars>>
    /\ pkgSubscriber' = ApplyPkgEvent(pkgSubscriber, lastPkgEvent')

\* the calls in flight for environment e, but for t, now run over a changed entry
Disturb(t, e) ==
    [u \in Tasks |->
        IF u = t THEN IdlePTask
        ELSE IF ptask[u].pc # "idle" /\ ptask[u].env = e
             THEN [ptask[u] EXCEPT !.disturbed = TRUE]
        ELSE ptask[u]]

\* a variant of Listed that stores the list for every environment
ListedEverywhere(t, listing, failed) ==
    LET e == ptask[t].env
        chg == getChanges(ptask[t].before, listing)
        fire == ptask[t].op = "manage" \/ Len(chg) > 0
        cache == [has |-> TRUE, list |-> listing]
    IN /\ packages' = [b \in PkgEnvs |-> cache]
       /\ lastPkgEvent' = IF fire
                          THEN [src |-> ptask[t].op, environment |-> e, changes |-> chg,
                                was |-> CachedOrEmpty(packages[e]), now |-> listing]
                          ELSE NoPkgEvent
       /\ pret' = [POutcome(t, "ok",
                              IF ptask[t].op = "getPackages" THEN packages'[e] ELSE NoCache,
                              IF fire THEN 1 ELSE 0,
                              IF failed THEN "list" ELSE "none",
                              IF failed THEN 1 ELSE 0) EXCEPT !.stored = packages'[e]]
       /\ lastGet' = [lastGet EXCEPT ![e] =
                        IF ptask[t].op = "getPackages"
                        THEN [valid |-> TRUE, list |-> listing]
                        ELSE [valid |-> FALSE, list |-> <<>>]]
       /\ ptask' = Disturb(t, e)

\* refreshPipenvPackages answered (`listing`: what it returns, `failed`: it caught an
\* error and logged it), the caller stores the list and fires the event
Listed(t, listing, failed) ==
    LET e == ptask[t].env
        chg == getChanges(ptask[t].before, listing)
        fire == ptask[t].op = "manage" \/ Len(chg) > 0
        cache == [has |-> TRUE, list |-> listing]
    IN /\ packages' = [packages EXCEPT ![e] = cache]
       /\ lastPkgEvent' = IF fire
                          THEN [src |-> ptask[t].op, environment |-> e, changes |-> chg,
                                was |-> CachedOrEmpty(packages[e]), now |-> listing]
                          ELSE NoPkgEvent
       /\ pret' = [POutcome(t, "ok",
                              IF ptask[t].op = "getPackages" THEN packages'[e] ELSE NoCache,
                              IF fire THEN 1 ELSE 0,
                              IF failed THEN "list" ELSE "none",
                              IF failed THEN 1 ELSE 0) EXCEPT !.stored = packages'[e]]
       /\ lastGet' = [lastGet EXCEPT ![e] =
                        IF ptask[t].op = "getPackages"
                        THEN [valid |-> TRUE, list |-> listing]
                        ELSE [valid |-> FALSE, list |-> <<>>]]
       /\ ptask' = Disturb(t, e)

\* a variant of ListDone that stores the list read before the commands ran
ListDoneStale(t) ==
    /\ ptask[t].pc = "list"
    /\ Listed(t, ptask[t].before, FALSE)
    /\ UNCHANGED <<installed, pkgOpsStarted, pkgExt>>
    /\ UNCHANGED <<envVars, diffVars, unitVars>>
    /\ pkgSubscriber' = ApplyPkgEvent(pkgSubscriber, lastPkgEvent')

\* `pipenv run pip list` ended well
ListDone(t) ==
    /\ ptask[t].pc = "list"
    /\ Listed(t, SortedNames(installed[ptask[t].env]), FALSE)
    /\ UNCHANGED <<installed, pkgOpsStarted, pkgExt>>
    /\ UNCHANGED <<envVars, diffVars, unitVars>>
    /\ pkgSubscriber' = ApplyPkgEvent(pkgSubscriber, lastPkgEvent')

\* `pipenv run pip list` failed: refreshPipenvPackages logs the error and returns []
ListFail(t) ==
    /\ ptask[t].pc = "list"
    /\ Listed(t, <<>>, TRUE)
    /\ UNCHANGED <<installed, pkgOpsStarted, pkgExt>>
    /\ UNCHANGED <<envVars, diffVars, unitVars>>
    /\ pkgSubscriber' = ApplyPkgEvent(pkgSubscriber, lastPkgEvent')

\* another process installs or removes a package
PkgExternalChange(e, n) ==
    /\ pkgExt < MaxExt
    /\ pkgExt' = pkgExt + 1
    /\ installed' = [installed EXCEPT ![e] = IF n \in @ THEN @ \ {n} ELSE @ \cup {n}]
    /\ pret' = NoPRet
    /\ lastPkgEvent' = NoPkgEvent
    /\ UNCHANGED <<packages, ptask, pkgOpsStarted, lastGet>>
    /\ UNCHANGED <<envVars, diffVars, unitVars>>
    /\ pkgSubscriber' = ApplyPkgEvent(pkgSubscriber, lastPkgEvent')

\* ----------------------------------------------------------- getChanges
\* all lists of at most n names
ListsUpTo(S, n) == UNION {[1..k -> S] : k \in 0..n}

ApplyGetChanges ==
    /\ ~diffDone
    /\ changes' = getChanges(before, after)
    /\ diffDone' = TRUE
    /\ UNCHANGED <<before, after>>
    /\ UNCHANGED <<envVars, pkgVars, unitVars>>


\* ------------------------------------------- registerPipenvFeatures (main.ts)
MaxRegs == 2

\* the places getPipenv looks in, in its order
StoredPipenv == <<"opt", "pipenv">>
HomePipenv == <<"home", ".local", "bin", "pipenv">>
WhichPipenv == <<"usr", "bin", "pipenv">>
NativePipenv == <<"native", "pipenv">>

\* home: the user install location exists; which: pipenv is on PATH; native: what
\* the native finder answers ("pipenv": a pipenv manager, "none": no such manager,
\* "fails": refresh rejects)
Hosts == [home : BOOLEAN, which : BOOLEAN, native : {"none", "pipenv", "fails"}]

\* how the workspace persistent state behaves during one call
StateFailures == {"none", "get", "set"}

NoRegRet == [done |-> FALSE, found |-> NoPath, located |-> FALSE, threw |-> FALSE,
             registered |-> FALSE, notices |-> 0]

\* setPipenv(pipenv) inside getPipenv: the module variable is assigned before
\* `await state.set`, so it keeps the path when the write is rejected
setPipenv(p, stored, fails) ==
    IF fails = "set"
    THEN [found |-> p, cache |-> p, stored |-> stored, threw |-> TRUE]
    ELSE [found |-> p, cache |-> p, stored |-> p, threw |-> FALSE]

\* getPipenv(native): `found` is what it returns, `cache` and `stored` are the module
\* variable and the persistent state it leaves, `threw` says that it rejected.
\* The setPipenv of the native finder's answer sits inside try/catch: a rejected write
\* is logged and undefined is returned.
getPipenv(cache, stored, h, fails) ==
    IF cache # NoPath
    THEN [found |-> cache, cache |-> cache, stored |-> stored, threw |-> FALSE]
    ELSE IF fails = "get"
    THEN [found |-> NoPath, cache |-> cache, stored |-> stored, threw |-> TRUE]
    ELSE IF stored # NoPath
    THEN [found |-> stored, cache |-> stored, stored |-> stored, threw |-> FALSE]
    ELSE IF h.home
    THEN setPipenv(HomePipenv, stored, fails)
    ELSE IF h.which
    THEN setPipenv(WhichPipenv, stored, fails)
    ELSE IF h.native = "pipenv"
    THEN IF fails = "set"
         THEN [found |-> NoPath, cache |-> NativePipenv, stored |-> stored, threw |-> FALSE]
         ELSE setPipenv(NativePipenv, stored, fails)
    ELSE [found |-> NoPath, cache |-> NoPath, stored |-> stored, threw |-> FALSE]

\* registerPipenvFeatures(nativeFinder, disposables, projectManager), the whole call;
\* registerFails: api.registerEnvironmentManager throws
registerPipenvFeatures(fails, registerFails) ==
    LET r == getPipenv(pipenvPath, pipenvStored, host, fails)
        registers == ~r.threw /\ r.found # NoPath /\ ~registerFails
    IN /\ regAttempts < MaxRegs
       /\ regAttempts' = regAttempts + 1
       /\ pipenvPath' = r.cache
       /\ pipenvStored' = r.stored
       /\ managers' = IF registers THEN managers + 1 ELSE managers
       /\ missingNotices' = IF registers THEN missingNotices ELSE missingNotices + 1
       /\ regRet' = [done |-> TRUE, found |-> r.found, located |-> r.cache # NoPath,
                     threw |-> r.threw, registered |-> registers,
                     notices |-> IF registers THEN 0 ELSE 1]
       /\ UNCHANGED host
       /\ UNCHANGED <<envVars, pkgVars, diffVars, execVars, cmpVars, mergeVars, lookupVars, condaVars,
                      cacheVars, permVars>>

\* --------------------------------- execution-info resolution (api.ts, spec 4.5)
\* shell types; "unknown" is the type of a shell that was not recognised
Shells == {"bash", "zsh", "unknown"}

\* an optional field that is not provided
Absent == "absent"

\* the commands a field can hold, one value for each field and each map entry
ShellCommands == [s \in Shells |-> "shellActivation." \o s]

\* shellActivation?: Map<string, PythonCommandRunConfiguration[]>
ShellActivations ==
    {[provided |-> FALSE, entries |-> <<>>]}
    \cup {[provided |-> TRUE, entries |-> [s \in keys |-> ShellCommands[s]]] :
              keys \in SUBSET Shells}

\* PythonEnvironmentExecutionInfo: run is required, the rest is optional
ExecutionInfos ==
    [run : {"run"}, activatedRun : {Absent, "activatedRun"},
     activation : {Absent, "activation"}, shellActivation : ShellActivations]

\* a variant that gives up when the shell has no entry of its own
shellActivationExact(info, sh) ==
    IF ~info.shellActivation.provided THEN Absent
    ELSE IF sh \in DOMAIN info.shellActivation.entries
    THEN info.shellActivation.entries[sh]
    ELSE Absent

\* the entry of shellActivation that applies to the shell `sh`
shellActivationFor(info, sh) ==
    IF ~info.shellActivation.provided THEN Absent
    ELSE IF sh \in DOMAIN info.shellActivation.entries
    THEN info.shellActivation.entries[sh]
    ELSE IF "unknown" \in DOMAIN info.shellActivation.entries
    THEN info.shellActivation.entries["unknown"]
    ELSE Absent

\* the activation commands for the shell `sh`
activationFor(info, sh) ==
    IF shellActivationFor(info, sh) # Absent
    THEN shellActivationFor(info, sh)
    ELSE info.activation

\* a variant of create-terminal resolution that honours activatedRun
createTerminalActivatedRun(info, sh) ==
    IF info.activatedRun # Absent THEN info.activatedRun
    ELSE IF activationFor(info, sh) # Absent THEN activationFor(info, sh)
    ELSE info.run

\* running in a terminal
runInTerminal(info, sh) ==
    IF info.activatedRun # Absent THEN info.activatedRun
    ELSE IF activationFor(info, sh) # Absent THEN activationFor(info, sh)
    ELSE info.run

\* creating a terminal
createTerminal(info, sh) ==
    IF activationFor(info, sh) # Absent THEN activationFor(info, sh)
    ELSE info.run

NoResolved == [mode |-> "none", commands |-> Absent]

ResolveRunInTerminal ==
    /\ resolved.mode = "none"
    /\ resolved' = [mode |-> "run", commands |-> runInTerminal(execInfo, shell)]
    /\ UNCHANGED <<execInfo, shell>>
    /\ UNCHANGED <<envVars, pkgVars, diffVars, regVars, cmpVars, mergeVars, lookupVars, condaVars,
                      cacheVars, permVars>>

ResolveCreateTerminal ==
    /\ resolved.mode = "none"
    /\ resolved' = [mode |-> "create", commands |-> createTerminal(execInfo, shell)]
    /\ UNCHANGED <<execInfo, shell>>
    /\ UNCHANGED <<envVars, pkgVars, diffVars, regVars, cmpVars, mergeVars, lookupVars, condaVars,
                      cacheVars, permVars>>

ExecStart ==
    /\ execInfo = [run |-> "run", activatedRun |-> Absent, activation |-> Absent,
                   shellActivation |-> [provided |-> FALSE, entries |-> <<>>]]
    /\ shell = "unknown"
    /\ resolved = NoResolved

\* ------------------------------------------ compareVersions (common/utils.ts)
MaxSegments == 3

\* the texts between the dots of a version string
SegmentTexts == {"0", "3", "03", "10", "x"}

\* Number(text) || 0: a text that is no number gives NaN, which counts as 0
NumberOf(text) ==
    CASE text = "0" -> 0
      [] text = "3" -> 3
      [] text = "03" -> 3
      [] text = "10" -> 10
      [] OTHER -> 0

\* a version string, split at the dots: '3.10' is <<"3", "10">>
VersionStrings == UNION {[1..n -> SegmentTexts] : n \in 1..MaxSegments}

\* a variant that takes a missing part for less than any written one
PartAtOrLess(v, i) == IF i <= Len(v) THEN NumberOf(v[i]) ELSE -1

\* v.split('.').map(Number)[i] || 0
PartAt(v, i) == IF i <= Len(v) THEN NumberOf(v[i]) ELSE 0

RECURSIVE compareFrom(_, _, _)
compareFrom(v1, v2, i) ==
    IF i > Len(v1) /\ i > Len(v2) THEN 0
    ELSE IF PartAt(v1, i) > PartAt(v2, i) THEN 1
    ELSE IF PartAt(v1, i) < PartAt(v2, i) THEN -1
    ELSE compareFrom(v1, v2, i + 1)

\* compareVersions(version1, version2)
compareVersions(v1, v2) == compareFrom(v1, v2, 1)

NoCompared == [done |-> FALSE, result |-> 0]

ApplyCompareVersions ==
    /\ ~compared.done
    /\ compared' = [done |-> TRUE, result |-> compareVersions(version1, version2)]
    /\ UNCHANGED <<version1, version2>>
    /\ UNCHANGED <<envVars, pkgVars, diffVars, regVars, execVars, mergeVars, lookupVars, condaVars,
                      cacheVars, permVars>>

CmpStart ==
    /\ version1 = <<"0">>
    /\ version2 = <<"0">>
    /\ compared = NoCompared

\* -------------------------------------------- mergePackages (common/utils.ts)
\* the curated entry of a package: its display name differs from its name
Curated(n) == [name |-> n, displayName |-> "Curated " \o n]

\* the entry made for an installed package that is not curated
Plain(n) == [name |-> n, displayName |-> n]

\* a variant that keeps one entry for each installed name
RECURSIVE notInCommonOnce(_, _)
notInCommonOnce(c, names) ==
    IF names = <<>> THEN <<>>
    ELSE LET rest == notInCommonOnce(c, Tail(names))
         IN IF (\E i \in 1..Len(c) : c[i].name = Head(names))
               \/ (\E i \in 1..Len(rest) : rest[i] = Head(names))
            THEN rest
            ELSE <<Head(names)>> \o rest

\* installed.filter((pkg) => !common.some((c) => c.name === pkg))
RECURSIVE notInCommon(_, _)
notInCommon(c, names) ==
    IF names = <<>> THEN <<>>
    ELSE IF \E i \in 1..Len(c) : c[i].name = Head(names)
    THEN notInCommon(c, Tail(names))
    ELSE <<Head(names)>> \o notInCommon(c, Tail(names))

\* where Array.prototype.sort puts `e` in the sorted list `s`: behind the entries that
\* do not compare greater
RECURSIVE insertByName(_, _)
insertByName(e, s) ==
    IF s = <<>> THEN <<e>>
    ELSE IF NameRank(Head(s).name) <= NameRank(e.name)
    THEN <<Head(s)>> \o insertByName(e, Tail(s))
    ELSE <<e>> \o s

\* list.sort((a, b) => a.name.localeCompare(b.name))
RECURSIVE sortByName(_)
sortByName(s) ==
    IF s = <<>> THEN <<>>
    ELSE insertByName(s[Len(s)], sortByName(SubSeq(s, 1, Len(s) - 1)))

\* mergePackages(common, installed)
mergePackages(c, names) ==
    sortByName(c \o [i \in 1..Len(notInCommon(c, names)) |-> Plain(notInCommon(c, names)[i])])

NoMerged == [done |-> FALSE, list |-> <<>>]

ApplyMergePackages ==
    /\ ~merged.done
    /\ merged' = [done |-> TRUE, list |-> mergePackages(common, installedNames)]
    /\ UNCHANGED <<common, installedNames>>
    /\ UNCHANGED <<envVars, pkgVars, diffVars, regVars, execVars, cmpVars, lookupVars, condaVars,
                      cacheVars, permVars>>

MergeStart ==
    /\ common = <<>>
    /\ installedNames = <<>>
    /\ merged = NoMerged

\* ------------------------------------ findEnvironmentByPath called on its own
\* the paths looked up: every install path, the paths one, two and three directories
\* below it, and the directory it lies in
PathsAround(v) ==
    {v, v \o <<"bin">>, v \o <<"bin", "python">>, v \o <<"lib", "python", "site">>,
     dirname(v)}

LookupPaths == UNION {PathsAround(r.prefix) : r \in {R1, R2, R3}}

NoLooked == [done |-> FALSE, env |-> NoEnv]

ApplyFindEnvironmentByPath ==
    /\ ~looked.done
    /\ looked' = [done |-> TRUE, env |-> findEnvironmentByPath(collection, lookupPath)]
    /\ UNCHANGED lookupPath
    /\ UNCHANGED <<envVars, pkgVars, diffVars, regVars, execVars, cmpVars, mergeVars, condaVars,
                      cacheVars, permVars>>

LookupStart ==
    /\ lookupPath = NoPath
    /\ looked = NoLooked

\* ------------------------------------------- refreshCondaEnvs (condaUtils.ts)
MaxCondaRefreshes == 2

SettingConda == <<"opt", "conda">>
StoredConda == <<"old", "conda">>
WhichConda == <<"usr", "bin", "conda">>
NativeConda == <<"native", "conda">>

\* setting: python.condaPath; which: conda is on PATH; managers: the executables of
\* the conda managers in the native finder's data, NoPath standing for an empty
\* string; envs: the names of the conda environments in the data
CondaHosts ==
    [setting : {NoPath, SettingConda}, which : BOOLEAN,
     managers : {<<>>, <<NativeConda>>, <<NoPath>>}, envs : SUBSET {"a", "b"}]

\* getConda(): `found` is what it returns, `cache` and `stored` are the module variable
\* and the persistent state it leaves, `threw` says that it threw 'Conda not found'
getConda(cache, stored, h) ==
    IF h.setting # NoPath
    THEN [found |-> h.setting, cache |-> cache, stored |-> stored, threw |-> FALSE]
    ELSE IF cache # NoPath
    THEN [found |-> cache, cache |-> cache, stored |-> stored, threw |-> FALSE]
    ELSE IF stored # NoPath
    THEN [found |-> stored, cache |-> stored, stored |-> stored, threw |-> FALSE]
    ELSE IF h.which
    THEN [found |-> WhichConda, cache |-> WhichConda, stored |-> WhichConda,
          threw |-> FALSE]
    ELSE [found |-> NoPath, cache |-> NoPath, stored |-> stored, threw |-> TRUE]

NoCondaRet == [done |-> FALSE, status |-> "none", list |-> <<>>, errors |-> 0,
               locatable |-> FALSE]

\* refreshCondaEnvs(hardRefresh, nativeFinder, api, log, manager), the whole call.
\* `managers[0].executable` throws a TypeError when the data holds no conda manager.
refreshCondaEnvs ==
    LET g == getConda(condaPath, condaStored, condaHost)
        fromNative == g.threw
        throws == fromNative /\ Len(condaHost.managers) = 0
        conda == IF ~fromNative THEN g.found
                 ELSE IF throws THEN NoPath
                 ELSE condaHost.managers[1]
        outcome == IF throws THEN [status |-> "threw", list |-> <<>>, errors |-> 0]
                   ELSE IF conda # NoPath
                   THEN [status |-> "ok", list |-> SortedNames(condaHost.envs),
                         errors |-> 0]
                   ELSE [status |-> "ok", list |-> <<>>, errors |-> 1]
    IN /\ condaRefreshes < MaxCondaRefreshes
       /\ condaRefreshes' = condaRefreshes + 1
       /\ condaPath' = IF fromNative /\ ~throws THEN conda ELSE g.cache
       /\ condaStored' = IF fromNative /\ ~throws THEN conda ELSE g.stored
       /\ condaRet' = [done |-> TRUE, status |-> outcome.status, list |-> outcome.list,
                       errors |-> outcome.errors,
                       locatable |-> \/ condaHost.setting # NoPath
                                     \/ condaPath # NoPath
                                     \/ condaStored # NoPath
                                     \/ condaHost.which
                                     \/ \E i \in 1..Len(condaHost.managers) :
                                            condaHost.managers[i] # NoPath]
       /\ UNCHANGED condaHost
       /\ UNCHANGED <<envVars, pkgVars, diffVars, regVars, execVars, cmpVars, mergeVars,
                      lookupVars, cacheVars, permVars>>

\* ----------------- clearPipenvCache (pipenvUtils.ts), clearCondaCache (condaUtils.ts)
MaxCacheCalls == 3

\* cached: the tool location the cache and the store held before a clear;
\* discovered: the get went past the cache and the store to discovery
NoCacheRet == [op |-> "none", found |-> NoPath, cached |-> {}, afterClear |-> FALSE,
               discovered |-> FALSE]

CacheCall ==
    /\ cacheCalls < MaxCacheCalls
    /\ cacheCalls' = cacheCalls + 1

\* clearPipenvCache(): the module variable is reset, the persistent state is not touched
clearPipenvCache ==
    /\ CacheCall
    /\ pipenvPath' = NoPath
    /\ cacheRet' = [NoCacheRet EXCEPT !.op = "clearPipenvCache",
                                      !.cached = {pipenvPath, pipenvStored} \ {NoPath}]
    /\ UNCHANGED <<pipenvStored, host, managers, missingNotices, regAttempts, regRet>>
    /\ UNCHANGED <<envVars, pkgVars, diffVars, execVars, cmpVars, mergeVars, lookupVars, condaVars,
                   permVars>>

\* getPipenv(native), the whole call
GetPipenvCall(fails) ==
    LET r == getPipenv(pipenvPath, pipenvStored, host, fails)
    IN /\ CacheCall
       /\ pipenvPath' = r.cache
       /\ pipenvStored' = r.stored
       /\ cacheRet' = [op |-> "getPipenv", found |-> r.found, cached |-> cacheRet.cached,
                       afterClear |-> cacheRet.op = "clearPipenvCache",
                       discovered |-> pipenvPath = NoPath
                                      /\ (fails = "get" \/ pipenvStored = NoPath)]
       /\ UNCHANGED <<host, managers, missingNotices, regAttempts, regRet>>
       /\ UNCHANGED <<envVars, pkgVars, diffVars, execVars, cmpVars, mergeVars, lookupVars,
                      condaVars, permVars>>

\* clearCondaCache(): CONDA_PATH_KEY (and the selections and prefixes) are removed from
\* the persistent state, the module variable condaPath is not touched
clearCondaCache ==
    /\ CacheCall
    /\ condaStored' = NoPath
    /\ cacheRet' = [NoCacheRet EXCEPT !.op = "clearCondaCache",
                                      !.cached = {condaPath, condaStored} \ {NoPath}]
    /\ UNCHANGED <<condaPath, condaHost, condaRefreshes, condaRet>>
    /\ UNCHANGED <<envVars, pkgVars, diffVars, regVars, execVars, cmpVars, mergeVars, lookupVars,
                   permVars>>

\* getConda(), the whole call
GetCondaCall ==
    LET g == getConda(condaPath, condaStored, condaHost)
    IN /\ CacheCall
       /\ condaPath' = g.cache
       /\ condaStored' = g.stored
       /\ cacheRet' = [op |-> "getConda", found |-> g.found, cached |-> cacheRet.cached,
                       afterClear |-> cacheRet.op = "clearCondaCache",
                       discovered |-> /\ condaHost.setting = NoPath
                                      /\ condaPath = NoPath
                                      /\ condaStored = NoPath]
       /\ UNCHANGED <<condaHost, condaRefreshes, condaRet>>
       /\ UNCHANGED <<envVars, pkgVars, diffVars, regVars, execVars, cmpVars, mergeVars, lookupVars,
                      permVars>>

CacheStart ==
    /\ cacheCalls = 0
    /\ cacheRet = NoCacheRet

\* ------------------------- package-management permissions (src/unnamed/part_002)
MaxPermCalls == 4

\* extension ids: one of them stays installed, the other may be uninstalled
ExtensionIds == {"ms.a", "ms.b"}

\* what the secret store holds under the key of an extension: NoSecret when there is
\* no entry, "junk" for a string that is no PermissionType
NoSecret == "undefined"
Secrets == {NoSecret, "Ask", "Allow", "Deny", "junk"}

validatePermissionType(value) == value \in {"Ask", "Allow", "Deny"}

\* PackageManagerPermissionsImpl.getPermissions
getPermissions(secrets, extensionId) ==
    IF secrets[extensionId] # NoSecret /\ validatePermissionType(secrets[extensionId])
    THEN secrets[extensionId]
    ELSE NoSecret

\* PackageManagerPermissionsImpl.setPermissions
setPermissions(secrets, extensionId, permissions) ==
    [secrets EXCEPT ![extensionId] = permissions]

\* PackageManagerPermissionsImpl.resetPermissions: the keys of the extensions that
\* allExtensions() lists are deleted
resetPermissions(secrets, all) ==
    [id \in ExtensionIds |-> IF id \in all THEN NoSecret ELSE secrets[id]]

\* the buttons of the first-time dialog; "closed" is the dialog dismissed
FirstTimeResponses == {"confirmEachTime", "allow", "deny", "closed"}

\* configureFirstTimePermissions: what it stores (NoSecret: nothing) and returns
configureFirstTimePermissions(response) ==
    IF response = "confirmEachTime" THEN [stores |-> "Ask", returns |-> "Ask"]
    ELSE IF response = "allow" THEN [stores |-> "Allow", returns |-> "Allow"]
    ELSE IF response = "deny" THEN [stores |-> "Deny", returns |-> "Deny"]
    ELSE [stores |-> NoSecret, returns |-> "Ask"]

\* the buttons of the per-operation prompt; "deny" is also its close affordance
AskResponses == {"allow", "deny"}

\* a variant of the per-operation prompt that takes every answer as consent
handleAskForPermissionsAlways(response) == TRUE

\* handleAskForPermissions
handleAskForPermissions(response) == response = "allow"

IdlePermTask == [pc |-> "idle", extensionId |-> "", atStart |-> NoSecret,
                 firstTime |-> FALSE]

\* storedAtStart / storedAtDecision: the secret of the calling extension when the call
\* read it and when the call decided; effective: currentPermission at the decision;
\* prompted: the per-operation prompt was shown; answer: what the user chose in it
NoPermRet == [op |-> "none", extensionId |-> "", result |-> FALSE,
              storedAtStart |-> NoSecret, storedAtDecision |-> NoSecret,
              effective |-> NoSecret, firstTime |-> FALSE, prompted |-> FALSE,
              answer |-> "none", before |-> <<>>]

PermCall ==
    /\ permCalls < MaxPermCalls
    /\ permCalls' = permCalls + 1

\* the lines of checkPackageManagementPermissions after currentPermission is known
Decide(extensionId, currentPermission, secrets, atStart, firstTime) ==
    LET report == [NoPermRet EXCEPT !.op = "check", !.extensionId = extensionId,
                                    !.storedAtStart = atStart,
                                    !.storedAtDecision = secrets[extensionId],
                                    !.effective = currentPermission,
                                    !.firstTime = firstTime]
    IN IF currentPermission = "Allow"
       THEN /\ permTask' = IdlePermTask
            /\ permRet' = [report EXCEPT !.result = TRUE]
       ELSE IF currentPermission = "Deny"
       THEN /\ permTask' = IdlePermTask
            /\ permRet' = [report EXCEPT !.result = FALSE]
       ELSE /\ permTask' = [pc |-> "ask", extensionId |-> extensionId,
                            atStart |-> atStart, firstTime |-> firstTime]
            /\ permRet' = NoPermRet

\* checkPackageManagementPermissions up to the first dialog: pm.getPermissions answered
CheckPermissions(extensionId) ==
    /\ permTask.pc = "idle"
    /\ PermCall
    /\ LET currentPermission == getPermissions(secretStore, extensionId)
       IN IF currentPermission = NoSecret
          THEN /\ permTask' = [pc |-> "first_time", extensionId |-> extensionId,
                               atStart |-> secretStore[extensionId], firstTime |-> TRUE]
               /\ permRet' = NoPermRet
          ELSE Decide(extensionId, currentPermission, secretStore,
                      secretStore[extensionId], FALSE)
    /\ UNCHANGED <<secretStore, extensions>>
    /\ UNCHANGED <<envVars, pkgVars, diffVars, regVars, execVars, cmpVars, mergeVars, lookupVars,
                   condaVars, cacheVars>>

\* the first-time dialog answered and pm.setPermissions done
FirstTimeAnswered(response) ==
    /\ permTask.pc = "first_time"
    /\ LET c == configureFirstTimePermissions(response)
           id == permTask.extensionId
       IN /\ secretStore' = IF c.stores # NoSecret
                            THEN setPermissions(secretStore, id, c.stores)
                            ELSE secretStore
          /\ Decide(id, c.returns, secretStore', permTask.atStart, TRUE)
    /\ UNCHANGED <<extensions, permCalls>>
    /\ UNCHANGED <<envVars, pkgVars, diffVars, regVars, execVars, cmpVars, mergeVars, lookupVars,
                   condaVars, cacheVars>>

\* the per-operation prompt answered
AskAnswered(response) ==
    /\ permTask.pc = "ask"
    /\ permTask' = IdlePermTask
    /\ permRet' = [NoPermRet EXCEPT !.op = "check",
                                    !.extensionId = permTask.extensionId,
                                    !.result = handleAskForPermissions(response),
                                    !.storedAtStart = permTask.atStart,
                                    !.storedAtDecision = secretStore[permTask.extensionId],
                                    !.effective = "Ask",
                                    !.firstTime = permTask.firstTime,
                                    !.prompted = TRUE,
                                    !.answer = response]
    /\ UNCHANGED <<secretStore, extensions, permCalls>>
    /\ UNCHANGED <<envVars, pkgVars, diffVars, regVars, execVars, cmpVars, mergeVars, lookupVars,
                   condaVars, cacheVars>>

\* handlePermissionsCommand(pm, extensionId) with its dialog answered
PermissionsCommand(extensionId, response) ==
    /\ PermCall
    /\ secretStore' = IF response = "closed" THEN secretStore
                      ELSE setPermissions(secretStore, extensionId,
                                          configureFirstTimePermissions(response).stores)
    /\ permRet' = [NoPermRet EXCEPT !.op = "command", !.extensionId = extensionId]
    /\ UNCHANGED <<extensions, permTask>>
    /\ UNCHANGED <<envVars, pkgVars, diffVars, regVars, execVars, cmpVars, mergeVars, lookupVars,
                   condaVars, cacheVars>>

\* resetPermissions(), the whole call
ResetPermissions ==
    /\ PermCall
    /\ secretStore' = resetPermissions(secretStore, extensions)
    /\ permRet' = [NoPermRet EXCEPT !.op = "reset", !.before = secretStore]
    /\ UNCHANGED <<extensions, permTask>>
    /\ UNCHANGED <<envVars, pkgVars, diffVars, regVars, execVars, cmpVars, mergeVars, lookupVars,
                   condaVars, cacheVars>>

\* the user installs or uninstalls an extension
ExtensionsChange(all) ==
    /\ PermCall
    /\ all # extensions
    /\ extensions' = all
    /\ permRet' = NoPermRet
    /\ UNCHANGED <<secretStore, permTask>>
    /\ UNCHANGED <<envVars, pkgVars, diffVars, regVars, execVars, cmpVars, mergeVars, lookupVars,
                   condaVars, cacheVars>>

PermStart ==
    /\ secretStore = [id \in ExtensionIds |-> NoSecret]
    /\ extensions = ExtensionIds
    /\ permTask = IdlePermTask
    /\ permRet = NoPermRet
    /\ permCalls = 0

CondaStart ==
    /\ condaPath = NoPath
    /\ condaStored = NoPath
    /\ condaHost = [setting |-> NoPath, which |-> FALSE, managers |-> <<>>, envs |-> {}]
    /\ condaRefreshes = 0
    /\ condaRet = NoCondaRet

RegStart ==
    /\ pipenvPath = NoPath
    /\ pipenvStored = NoPath
    /\ host = [home |-> FALSE, which |-> FALSE, native |-> "none"]
    /\ managers = 0
    /\ missingNotices = 0
    /\ regAttempts = 0
    /\ regRet = NoRegRet

UnitStart ==
    /\ RegStart
    /\ ExecStart
    /\ CmpStart
    /\ MergeStart
    /\ LookupStart
    /\ CondaStart
    /\ CacheStart
    /\ PermStart

\* --------------------------------------------------------------- claims
\* the operations that start with `await this.initialize()`
InitCallers == {"init", "get", "getEnvs", "resolve"}

\* the first discovery pass ran, once, and fired its event, once
FirstPassOver == initialized = "resolved" /\ initDiscoveries = 1 /\ initEvents = 1

\* C1: however many callers reach initialize() before the first discovery is over,
\* the adapter is asked to enumerate once, the initial change event fires once, and
\* a caller goes on only after that pass has populated the collection.
InitializeRunsOnce ==
    /\ initDiscoveries <= 1
    /\ initEvents <= 1
    /\ \A t \in Tasks : task[t].pc = "res_io" => FirstPassOver
    /\ (ret.op \in InitCallers /\ ret.status = "ok") => FirstPassOver

\* a caller that found the first pass under way has completed
InitializeWaiterDone ==
    /\ ret.op \in InitCallers
    /\ ret.status = "ok"
    /\ ret.how = "waiter"

\* C2: getPackages(env) on a cold cache makes exactly one listing call and stores
\* what it returns; a getPackages(env) right after another one makes no listing
\* call and returns the same list.
GetPackagesUsesCache ==
    (pret.op = "getPackages" /\ pret.status = "ok") =>
        /\ pret.cold => (pret.calls = 1 /\ pret.result.has /\ pret.stored = pret.result)
        /\ ~pret.cold => pret.calls = 0
        /\ (~pret.cold /\ pret.prev.valid) => pret.result.list = pret.prev.list

\* a second getPackages(env) returned a list that is not empty
GetPackagesSecondCall ==
    /\ pret.op = "getPackages"
    /\ pret.status = "ok"
    /\ ~pret.cold
    /\ pret.prev.valid
    /\ pret.result.list # <<>>

\* C3: a package change event is fired only when the cached list and the new list
\* differ: a refresh or manage that ends with the names that were cached fires none.
PackagesChangedOnlyOnDiff ==
    lastPkgEvent.src # "none" => Range(lastPkgEvent.was) # Range(lastPkgEvent.now)

\* C4: the change list has an add entry for exactly the names in `after` and not in
\* `before`, a remove entry for exactly the names in `before` and not in `after`,
\* and nothing else; for equal lists it is empty.
GetChangesIsDifference ==
    diffDone =>
        /\ {c.pkg : c \in {d \in Range(changes) : d.kind = "add"}}
             = Range(after) \ Range(before)
        /\ {c.pkg : c \in {d \in Range(changes) : d.kind = "remove"}}
             = Range(before) \ Range(after)
        /\ \A c \in Range(changes) : c.kind \in {"add", "remove"}
        /\ before = after => changes = <<>>

\* C5: a refresh() fires one event: a remove entry for each environment held when
\* it started, in order, followed by an add entry for each environment held after.
RefreshReplacesAll ==
    /\ (ret.op = "refresh" /\ ret.status = "ok") => ret.fired = 1
    /\ lastEvent.src = "refresh" =>
          LET c == lastEvent.changes
              n == Len(lastEvent.start)
              m == Len(lastEvent.final)
          IN /\ Len(c) = n + m
             /\ \A i \in 1..n : c[i].kind = "remove" /\ c[i].environment = lastEvent.start[i]
             /\ \A j \in 1..m : c[n + j].kind = "add" /\ c[n + j].environment = lastEvent.final[j]

\* a refresh() found again an environment it held when it started
RefreshKeptOne ==
    /\ ret.op = "refresh"
    /\ ret.status = "ok"
    /\ lastEvent.src = "refresh"
    /\ Range(lastEvent.start) \cap Range(lastEvent.final) # {}

E1 == EnvOf(R1)
E2 == EnvOf(R2)

\* a refresh() that started with E1 and E2 and found E2 only
RefreshLostE1 ==
    /\ lastEvent.src = "refresh"
    /\ Range(lastEvent.start) = {E1, E2}
    /\ lastEvent.final = <<E2>>

\* C6 (as stated): from {E1, E2}, a refresh that finds only E2 fires exactly
\* remove(E1), add(E2).
RefreshFiresRemoveE1AddE2 ==
    RefreshLostE1 =>
        lastEvent.changes = <<[kind |-> "remove", environment |-> E1],
                              [kind |-> "add", environment |-> E2]>>

\* C6: from {E1, E2}, a refresh that finds only E2 fires three entries: a remove
\* for E1 and a remove for E2, followed by add(E2).
RefreshFiresRemoveBothAddE2 ==
    RefreshLostE1 =>
        LET c == lastEvent.changes
        IN /\ Len(c) = 3
           /\ {c[1], c[2]} = {[kind |-> "remove", environment |-> E1],
                              [kind |-> "remove", environment |-> E2]}
           /\ c[3] = [kind |-> "add", environment |-> E2]

\* the refresh of C6 has completed
RefreshLostE1Done ==
    /\ RefreshLostE1
    /\ ret.op = "refresh"
    /\ ret.status = "ok"

\* C7: get(path) returns the environment bound to the path itself; without one, the
\* one bound to the project that owns the path; without that, the global one.
GetPrecedence ==
    (ret.op = "get" /\ ret.status = "ok") =>
        IF Len(ret.scope) = 0 THEN ret.result = ret.global
        ELSE IF ret.exact # NoEnv THEN ret.result = ret.exact
        ELSE IF ret.project # NoEnv THEN ret.result = ret.project
        ELSE ret.result = ret.global

\* get(path) answered where the path, its project and the global selection are
\* bound to different environments
GetExactOverProject ==
    /\ ret.op = "get"
    /\ ret.status = "ok"
    /\ Len(ret.scope) = 1
    /\ ret.exact # NoEnv
    /\ ret.project # NoEnv
    /\ ret.exact # ret.project
    /\ ret.exact # ret.global

\* C8: after set(scope, E) has completed, the next get(scope) returns E, for a path
\* and for the global scope, with no other set on the scope and no refresh() in
\* between.
SetThenGet ==
    (ret.op = "get" /\ ret.status = "ok" /\ ret.afterSet # NoEnv) =>
        ret.result = ret.afterSet

\* C9: a binding made with set(path, E) is persisted: after a later refresh() or
\* a new manager over the same store, get(path) returns the environment at E's
\* path if it is still discovered.
BindingSurvivesReload ==
    (ret.op = "get" /\ ret.status = "ok" /\ ret.afterReload # NoPath) =>
        ret.result.path = ret.afterReload

\* C10: overlapping set() operations for different paths lose no update: once they
\* have completed, the persisted map holds the binding of each.
NoBindingLost ==
    (\A t \in Tasks : task[t].pc = "idle") =>
        \A k \in Keys : setDone[k].stage >= 1 => store.ws[k] = setDone[k].env.path


\* get(p) answered for a project p whose persisted binding names no environment of
\* the collection, with nothing else under way
StaleBindingRead ==
    /\ ret.op = "get"
    /\ ret.status = "ok"
    /\ ret.quiet
    /\ Len(ret.scope) = 1
    /\ ret.scope[1] \in Range(Projects)
    /\ ret.ws[ret.scope[1]] # NoPath
    /\ findEnvironmentByPath(ret.coll, ret.ws[ret.scope[1]]) = NoEnv

\* C11: a persisted binding of a path that names an environment no longer present
\* counts as no binding: get(path) answers what it answers with nothing stored for
\* the path, and raises no error.
StaleBindingIsNoBinding ==
    StaleBindingRead =>
        LET implicit == ImplicitEnv(ret.scope[1], PathSortedOf(ret.coll))
        IN ret.result = IF implicit # NoEnv THEN implicit ELSE ret.global

\* the environments of collection c that lie in a registered project
Candidates(c) == {e \in Range(c) : getPythonProject(e.path) # NoPath}

\* a get(path) that finds no binding stored for any project
UnboundGet ==
    /\ ret.op = "get" /\ ret.status = "ok" /\ ret.quiet
    /\ Len(ret.scope) = 1
    /\ ret.ws = NoData

\* C12: with no binding stored and exactly one environment lying in a project,
\* get(path of that project) returns that environment; with no or several such
\* environments and no global environment, get(path) returns undefined.
ImplicitBindingRule ==
    UnboundGet =>
        LET cands == Candidates(ret.coll)
        IN /\ \A e \in cands :
                cands = {e} /\ getPythonProject(e.path) = getPythonProject(ret.scope[1])
                    => ret.result = e
           /\ Cardinality(cands) # 1 /\ ret.global = NoEnv => ret.result = NoEnv

\* the most-preferred environment of S: highest version, then name, then install path
MostPreferred(S) ==
    IF S = {} THEN NoEnv ELSE CHOOSE e \in S : \A o \in S \ {e} : EnvBefore(e, o)

\* a get(undefined) with no global selection stored and none made in this session,
\* and nothing else in flight
DefaultGlobalGet ==
    /\ ret.op = "get" /\ ret.status = "ok" /\ ret.scope = <<>>
    /\ ret.quiet /\ ~ret.touched
    /\ ret.stored = NoPath

CancelledManage == pret.op = "manage" /\ pret.status = "cancelled"

\* C14: a cancelled manage(env) fires no PackagesChanged event and leaves the cache
\* entry of env as it was when manage was called (no other call having written it
\* in between).
CancelledManageLeavesCache ==
    CancelledManage =>
        /\ pret.fired = 0
        /\ lastPkgEvent = NoPkgEvent
        /\ ~pret.disturbed => pret.stored = pret.entry

\* a manage() cancelled over a filled cache entry, after its command changed the
\* environment
CancelledManageOverCache ==
    /\ CancelledManage
    /\ ~pret.disturbed
    /\ pret.entry.has
    /\ pret.stored = pret.entry
    /\ SortedNames(installed[pret.env]) # pret.stored.list

\* C15: when a pipenv command run by manage() fails, a cancellation reaches the
\* caller as the cancellation error and is not logged as an error; any other
\* failure is logged as an error and manage() is rejected.
ManageFailureIsLoggedAndRejected ==
    pret.op = "manage" /\ pret.failure \in {"uninstall", "install", "list"} =>
        IF pret.status = "cancelled"
        THEN pret.logged = 0
        ELSE pret.logged >= 1 /\ pret.status = "rejected"

\* a refresh(env) or getPackages(env) whose listing command failed
ListingFailed == pret.op \in {"refresh", "getPackages"} /\ pret.failure = "list"

\* C16: when the listing command fails during refresh(env) or getPackages(env), the
\* call is rejected and the cache entry of env is not written, so getPackages
\* never hands out an empty list as the real one.
ListingFailureRejects ==
    ListingFailed =>
        /\ pret.status = "rejected"
        /\ ~pret.disturbed => pret.stored = pret.entry

\* a manage() call with something to install or uninstall, all of whose commands
\* ended well
ManagedWell ==
    /\ pret.op = "manage" /\ pret.status = "ok" /\ pret.failure = "none"
    /\ pret.install # {} \/ pret.uninstall # {}

\* C17: when manage() with something to install or uninstall succeeds, the cache
\* entry of the environment is the listing taken after the commands ran, and the
\* PackagesChanged event for it has fired by the time manage() returns.
ManageStoresListingAndFires ==
    ManagedWell =>
        /\ pret.stored = [has |-> TRUE, list |-> SortedNames(installed[pret.env])]
        /\ packages[pret.env] = pret.stored
        /\ pret.fired = 1
        /\ lastPkgEvent.src = "manage"
        /\ lastPkgEvent.environment = pret.env
        /\ lastPkgEvent.now = pret.stored.list

\* manage() replaced numpy by requests over a cache entry that listed numpy
ManageReplacedEntry ==
    /\ ManagedWell
    /\ pret.install = {"requests"} /\ pret.uninstall = {"numpy"}
    /\ pret.entry = [has |-> TRUE, list |-> <<"numpy">>]
    /\ pret.stored.list = <<"requests">>
    /\ lastPkgEvent.src = "manage"

\* a manage() call with both lists, all of whose commands ended well
ManagedBoth == ManagedWell /\ pret.install # {} /\ pret.uninstall # {}

\* C18: with something to uninstall and something to install, manage() starts the
\* install command only after the uninstall command has ended, and the listing
\* only after both.
UninstallThenInstallThenList ==
    /\ \A t \in Tasks :
          ptask[t].op = "manage" /\ ptask[t].install # {} /\ ptask[t].uninstall # {} =>
              /\ ptask[t].pc = "uninstall" => ptask[t].cmds = <<"uninstall">>
              /\ ptask[t].pc = "install" => ptask[t].cmds = <<"uninstall", "install">>
              /\ ptask[t].pc = "list" => ptask[t].cmds = <<"uninstall", "install", "list">>
    /\ ManagedBoth => pret.cmds = <<"uninstall", "install", "list">>

ManagedBothInOrder ==
    /\ ManagedBoth
    /\ pret.cmds = <<"uninstall", "install", "list">>
    /\ pret.stored.list = <<"requests">>

\* a manage() call with nothing to install and nothing to uninstall
EmptyManage == pret.op = "manage" /\ pret.install = {} /\ pret.uninstall = {}

CacheEntryChangesOnlyForOwnEnv ==
    [][\A b \in PkgEnvs :
          packages'[b] # packages[b] =>
              \E t \in Tasks : /\ ptask[t].pc # "idle"
                               /\ ptask[t].env = b
                               /\ ptask'[t].pc = "idle"]_vars

\* a call for e1 wrote its cache entry while e2 holds a different entry
WroteE1BesideE2 ==
    /\ pret.op \in {"refresh", "getPackages", "manage"}
    /\ pret.env = "e1"
    /\ pret.stored # pret.entry
    /\ packages["e1"] = pret.stored
    /\ packages["e2"].has
    /\ packages["e2"] # packages["e1"]

\* the second of two overlapping refresh() calls has returned, and nothing else is
\* in flight
OverlappedRefreshesDone ==
    /\ ret.op = "refresh" /\ ret.status = "ok"
    /\ ret.overlapped /\ ret.quiet

\* C21 as stated: once two overlapping refresh() calls are over, the collection is
\* exactly what the discovery of the last writer returned.
LastWriterExactly ==
    OverlappedRefreshesDone => collection = discovered

\* C21, amended: overlapping refresh() calls each run their own pass and fire their
\* own event, and once both are over the collection begins with what the discovery
\* of the last writer returned, whole and in order; what follows it are validated
\* environments pushed after that write, none of them kept from the other
\* discovery.
LastWriterWins ==
    OverlappedRefreshesDone =>
        /\ ret.fired = 1
        /\ Len(collection) >= Len(discovered)
        /\ SubSeq(collection, 1, Len(discovered)) = discovered
        /\ \A i \in (Len(discovered) + 1)..Len(collection) :
              \E r \in Records : IsComplete(r) /\ collection[i] = EnvOf(r)

\* the refresh that returned last replaced what the other one had written by a
\* different discovery result
LastWriterReplacedOther ==
    /\ OverlappedRefreshesDone
    /\ lastEvent.src = "refresh"
    /\ Len(lastEvent.start) > 0
    /\ Range(lastEvent.start) # Range(collection)
    /\ collection = discovered
    /\ Len(collection) > 0

\* C22: a record without an install path, an executable path or a version is never
\* admitted to the collection, and the other records of the same discovery are
\* admitted all the same.
OnlyCompleteRecordsAdmitted ==
    /\ \A e \in Range(collection) :
          \E r \in disk : /\ r.prefix # NoPath /\ r.executable /\ r.version # <<>>
                          /\ e = EnvOf(r)
    /\ (ret.op = "refresh" /\ ret.status = "ok") =>
          \A r \in disk :
              r.prefix # NoPath /\ r.executable /\ r.version # <<>> =>
                  EnvOf(r) \in Range(collection)

\* a refresh() dropped three incomplete records and admitted the complete ones
IncompleteRecordsDropped ==
    /\ ret.op = "refresh" /\ ret.status = "ok"
    /\ disk = {R1, R2, R4, R5, R6}
    /\ Range(collection) = {E1, E2}

RegisteredNothingThoughLocated ==
    regRet.done /\ regRet.located /\ regRet.notices = 1 /\ ~regRet.registered

\* C24: when registration finds no pipenv executable the environment manager is not
\* registered and the missing tool is reported exactly once in that attempt; it is
\* reported only when no pipenv executable was located
MissingToolSurfacedOnce ==
    regRet.done =>
        /\ regRet.notices <= 1
        /\ ~regRet.located => (~regRet.registered /\ regRet.notices = 1)
        /\ regRet.notices = 1 => ~regRet.located


\* the shell has an entry of its own in shellActivation
HasShellEntry == execInfo.shellActivation.provided
                 /\ shell \in DOMAIN execInfo.shellActivation.entries

\* shellActivation has an entry for shells that were not recognised
HasUnknownEntry == execInfo.shellActivation.provided
                   /\ "unknown" \in DOMAIN execInfo.shellActivation.entries

\* C25: running in a terminal uses activatedRun when it is provided; without it the
\* shellActivation entry of the detected shell; without that the 'unknown' entry of
\* shellActivation; without that activation; and run when nothing else is provided
RunInTerminalPrecedence ==
    resolved.mode = "run" =>
        resolved.commands =
            IF execInfo.activatedRun # Absent THEN "activatedRun"
            ELSE IF HasShellEntry THEN ShellCommands[shell]
            ELSE IF HasUnknownEntry THEN ShellCommands["unknown"]
            ELSE IF execInfo.activation # Absent THEN "activation"
            ELSE "run"

\* run-in-terminal resolution fell back on the 'unknown' entry for a bash terminal
\* of an environment that also provides activation
RunInTerminalUsedUnknown ==
    /\ resolved.mode = "run"
    /\ shell = "bash"
    /\ execInfo.activatedRun = Absent
    /\ execInfo.activation = "activation"
    /\ DOMAIN execInfo.shellActivation.entries = {"zsh", "unknown"}
    /\ resolved.commands = "shellActivation.unknown"

CompareVersionsAntisymmetric ==
    compared.done =>
        /\ compared.result \in {-1, 0, 1}
        /\ compared.result = 0 - compareVersions(version2, version1)
        /\ version1 = version2 => compared.result = 0
        /\ version2 = version1 \o <<"0">> => compared.result = 0
        /\ version1 = version2 \o <<"0">> => compared.result = 0

\* '3.10' was compared with '3.10.0'
ComparedShortWithPadded ==
    /\ compared.done
    /\ version1 = <<"3", "10">>
    /\ version2 = <<"3", "10", "0">>
    /\ compared.result = 0


\* how often the name `n` occurs in the list of names `s`
Occurrences(s, n) == Cardinality({i \in 1..Len(s) : s[i] = n})

\* C28: the list mergePackages returns is sorted ascending by name; it holds every
\* curated entry once, with its curated display name, and no other entry of a curated
\* name; for every other installed name it holds one entry with displayName equal to
\* the name for each occurrence of the name in installed
MergePackagesContract ==
    merged.done =>
        /\ \A i \in 1..Len(merged.list) : \A j \in i..Len(merged.list) :
               NameRank(merged.list[i].name) <= NameRank(merged.list[j].name)
        /\ \A n \in DiffNames :
               LET curated == Cardinality({i \in 1..Len(common) : common[i].name = n})
                   entries == Cardinality({i \in 1..Len(merged.list) :
                                               merged.list[i].name = n})
                   plain == Cardinality({i \in 1..Len(merged.list) :
                                             merged.list[i] = Plain(n)})
                   kept == Cardinality({i \in 1..Len(merged.list) :
                                            merged.list[i] = Curated(n)})
               IN IF curated > 0
                  THEN kept = curated /\ entries = curated
                  ELSE plain = Occurrences(installedNames, n) /\ entries = plain

\* an installed package that is listed twice and not curated came out twice, next to
\* an installed package that is curated and came out once
MergedKeptRepeat ==
    /\ merged.done
    /\ common = <<Curated("a")>>
    /\ installedNames = <<"c", "a", "c">>
    /\ merged.list = <<Curated("a"), Plain("c"), Plain("c")>>


\* the path p is the install path `prefix` or lies at most `depth` directories below it
WithinPrefix(p, prefix, depth) ==
    /\ Len(p) >= Len(prefix)
    /\ Len(p) <= Len(prefix) + depth
    /\ SubSeq(p, 1, Len(prefix)) = prefix

\* C29: looking a path up finds an environment exactly when the path is the install
\* path of an environment of the collection or lies one or two directories below
\* it (<prefix>/bin, <prefix>/bin/python), and the environment found is such a one;
\* a path deeper below finds nothing
LookupByContainment ==
    looked.done =>
        LET holders == {e \in Range(collection) : WithinPrefix(lookupPath, e.path, 2)}
        IN IF holders = {} THEN looked.env = NoEnv ELSE looked.env \in holders


\* C30: when conda can be located neither through the setting, nor the cached or
\* persisted path, nor PATH, nor the managers the native finder reports,
\* refreshCondaEnvs logs an error and returns an empty list, and does not throw
CondaNotFoundIsEmptyList ==
    (condaRet.done /\ ~condaRet.locatable) =>
        /\ condaRet.status = "ok"
        /\ condaRet.list = <<>>
        /\ condaRet.errors = 1


\* no operation of the manager is in flight
ManagerIdle == \A t \in Tasks : task[t].pc = "idle"

\* C31: a listener that starts with nothing and applies every event of
\* onDidChangeEnvironments in the order of delivery holds exactly the environments of
\* the collection whenever no operation of the manager is in flight
SubscriberMirrorsCollection ==
    ManagerIdle => subscriber = Range(collection)


\* no operation of the package manager is in flight
PackageManagerIdle == \A t \in Tasks : ptask[t].pc = "idle"

\* C32: a listener that applies the entries of every event of onDidChangePackages in
\* the order of delivery holds, for each environment, exactly the packages stored in
\* the cache of that environment whenever no package operation is in flight
PkgSubscriberMirrorsCache ==
    PackageManagerIdle =>
        \A e \in PkgEnvs : pkgSubscriber[e] = Range(CachedOrEmpty(packages[e]))


\* the caller t waits for the promise of the initialization guard
WaitsForGuard(t) == task[t].pc = "await_init" /\ initialized = "pending"

\* the call of initialize() that created the guard is still at work on the discovery
\* pass, so it will settle the guard
GuardHasOwner ==
    \E u \in Tasks : task[u].how = "creator" /\ task[u].pc \notin {"idle", "await_init"}

\* C33: when the discovery pass of the first initialize() fails, the callers of get,
\* getEnvironments and resolve still complete: no caller waits for an initialization
\* guard that the call which created it has left unsettled
NoCallerWaitsOnDeadGuard ==
    \A t \in Tasks : WaitsForGuard(t) => GuardHasOwner


NoTwoEnvironmentsShareAPath ==
    \A i, j \in 1..Len(collection) :
        i # j => collection[i].path # collection[j].path

\* a step in which resolve(path) returns to its caller
ResolveAnswers == ret'.op = "resolve" /\ ret'.status = "ok"

ResolvedARegisteredInstallation ==
    /\ ret.op = "resolve" /\ ret.status = "ok"
    /\ ret.result # NoEnv
    /\ lastEvent = NoEvent

\* resolve(path) has just answered undefined
ResolvedNothing ==
    /\ ret.op = "resolve" /\ ret.status = "ok"
    /\ ret.result = NoEnv

\* C37: after clearPipenvCache / clearCondaCache the tool location that was cached
\* is gone from the in-memory cache and from the persistent store, and the next
\* getPipenv() / getConda() runs discovery instead of returning the cached path
ClearedCacheIsForgotten ==
    /\ cacheRet.op = "clearPipenvCache" => pipenvPath = NoPath /\ pipenvStored = NoPath
    /\ cacheRet.op = "clearCondaCache" => condaPath = NoPath /\ condaStored = NoPath
    /\ cacheRet.op \in {"getPipenv", "getConda"} /\ cacheRet.afterClear
          => cacheRet.discovered

\* the same for pipenv alone
ClearedPipenvCacheIsForgotten ==
    /\ cacheRet.op = "clearPipenvCache" => pipenvPath = NoPath /\ pipenvStored = NoPath
    /\ cacheRet.op = "getPipenv" /\ cacheRet.afterClear => cacheRet.discovered

\* the same for conda alone
ClearedCondaCacheIsForgotten ==
    /\ cacheRet.op = "clearCondaCache" => condaPath = NoPath /\ condaStored = NoPath
    /\ cacheRet.op = "getConda" /\ cacheRet.afterClear /\ condaHost.setting = NoPath
          => cacheRet.discovered

\* C38: checkPackageManagementPermissions returns true only if the permission stored
\* for the calling extension is Allow when the call decides (possibly stored a moment
\* ago by the first-time dialog), or the effective permission is Ask and the user
\* chose Allow in the per-operation prompt; with Deny stored it returns false and
\* the per-operation prompt is not shown
TrueOnlyWithConsent ==
    permRet.op = "check" =>
        /\ permRet.result =>
              \/ permRet.storedAtDecision = "Allow" /\ ~permRet.prompted
              \/ /\ permRet.effective = "Ask"
                 /\ permRet.prompted
                 /\ permRet.answer = "allow"
        /\ permRet.storedAtStart = "Deny" => ~permRet.result /\ ~permRet.prompted

\* a call has returned true on an Allow that its own first-time dialog stored
AllowedByFirstTimeDialog ==
    /\ permRet.op = "check"
    /\ permRet.result
    /\ permRet.firstTime
    /\ permRet.storedAtStart # "Allow"
    /\ permRet.storedAtDecision = "Allow"

\* a call has returned true on the answer to the per-operation prompt
AllowedByPrompt ==
    /\ permRet.op = "check"
    /\ permRet.result
    /\ permRet.prompted

\* a call has returned false on a stored Deny
DeniedByStoredPermission ==
    /\ permRet.op = "check"
    /\ ~permRet.result
    /\ permRet.storedAtStart = "Deny"

\* C39: after resetPermissions() getPermissions(id) is undefined for every extension
\* id that had a stored permission before the reset
ResetForgetsEveryExtension ==
    permRet.op = "reset" =>
        \A id \in ExtensionIds :
            getPermissions(permRet.before, id) # NoSecret
                => getPermissions(secretStore, id) = NoSecret


\* ------------------------------------------------------- specifications
\* a PipenvManager right after `new PipenvManager(nativeFinder, api)`
ManagerStart ==
    /\ collection = <<>>
    /\ subscriber = {}
    /\ discovered = <<>>
    /\ fsPathToEnv = NoBinding
    /\ globalEnv = NoEnv
    /\ initialized = "unset"
    /\ lastEvent = NoEvent
    /\ initEvents = 0
    /\ task = [t \in Tasks |-> IdleTask]
    /\ ret = NoRet
    /\ opsStarted = 0
    /\ extChanges = 0
    /\ initDiscoveries = 0
    /\ setDone = NoSetDone

\* the same over an empty persistent state
EnvStart ==
    /\ ManagerStart
    /\ store = [global |-> NoPath, ws |-> NoData]

\* a PipenvPackageManager right after construction
PkgStart ==
    /\ packages = [e \in PkgEnvs |-> NoCache]
    /\ pkgSubscriber = [e \in PkgEnvs |-> {}]
    /\ lastPkgEvent = NoPkgEvent
    /\ ptask = [t \in Tasks |-> IdlePTask]
    /\ pret = NoPRet
    /\ pkgOpsStarted = 0
    /\ pkgExt = 0
    /\ lastGet = NoLastGet

DiffStart ==
    /\ changes = <<>>
    /\ diffDone = FALSE

\* the installations on disk when the manager is created
InitialDisks == {{R1, R2}, {R3, R4}}

Init ==
    /\ EnvStart
    /\ disk \in InitialDisks
    /\ PkgStart
    /\ installed = [e \in PkgEnvs |-> {}]
    /\ DiffStart
    /\ UnitStart
    /\ before = <<>>
    /\ after = <<>>

Next ==
    \/ \E t \in Tasks : Initialize(t)
    \/ \E t \in Tasks, scope \in GetScopes : Get(t, scope)
    \/ \E t \in Tasks, scope \in GetEnvironmentsScopes : GetEnvironments(t, scope)
    \/ \E t \in Tasks, scope \in ResolveScopes : Resolve(t, scope)
    \/ \E t \in Tasks : Refresh(t)
    \/ \E t \in Tasks : DiscoverDone(t)
    \/ \E t \in Tasks : DiscoverFail(t)
    \/ \E t \in Tasks : LemGlobal(t)
    \/ \E t \in Tasks : LemGlobalResolve(t)
    \/ \E t \in Tasks : LemWorkspace(t)
    \/ \E t \in Tasks : LemWorkspaceResolve(t)
    \/ \E t \in Tasks : InitializeReturn(t)
    \/ \E t \in Tasks : GetReturn(t)
    \/ \E t \in Tasks : GetEnvironmentsReturn(t)
    \/ \E t \in Tasks : ResolveCall(t)
    \/ \E t \in Tasks : ResolveReturn(t)
    \/ \E t \in Tasks, scope \in SetScopes, env \in {EnvOf(r) : r \in Records} \cup {NoEnv} :
          Set(t, scope, env)
    \/ \E t \in Tasks : SetGlobalWrite(t)
    \/ \E t \in Tasks : SetWorkspaceRead(t)
    \/ \E t \in Tasks : SetWorkspaceWrite(t)
    \/ \E t \in Tasks : SetReturn(t)
    \/ \E r \in Records : ExternalChange(r)
    \/ Restart

Spec == Init /\ [][Next]_vars

\* the same manager when its owner may also dispose of it
DisposeNext == Next \/ Dispose

DisposeSpec == Init /\ [][DisposeNext]_vars

\* a manager created over a persistent state in which an earlier session bound the
\* project /w1 to the environment /w1/venv, which has since been deleted
StaleInit ==
    /\ ManagerStart
    /\ store = [global |-> NoPath, ws |-> [NoData EXCEPT ![P1] = V1]]
    /\ disk = {R2, R3}
    /\ PkgStart
    /\ installed = [e \in PkgEnvs |-> {}]
    /\ DiffStart
    /\ UnitStart
    /\ before = <<>>
    /\ after = <<>>

\* the operations of the manager while nothing changes on disk; a stored global
\* selection is then always found in the collection, so LemGlobalResolve has no turn
StaleNext ==
    \/ \E t \in Tasks : Initialize(t)
    \/ \E t \in Tasks, scope \in GetScopes : Get(t, scope)
    \/ \E t \in Tasks, scope \in GetEnvironmentsScopes : GetEnvironments(t, scope)
    \/ \E t \in Tasks, scope \in ResolveScopes : Resolve(t, scope)
    \/ \E t \in Tasks : Refresh(t)
    \/ \E t \in Tasks : DiscoverDone(t)
    \/ \E t \in Tasks : DiscoverFail(t)
    \/ \E t \in Tasks : LemGlobal(t)
    \/ \E t \in Tasks : LemWorkspace(t)
    \/ \E t \in Tasks : LemWorkspaceResolve(t)
    \/ \E t \in Tasks : InitializeReturn(t)
    \/ \E t \in Tasks : GetReturn(t)
    \/ \E t \in Tasks : GetEnvironmentsReturn(t)
    \/ \E t \in Tasks : ResolveCall(t)
    \/ \E t \in Tasks : ResolveReturn(t)
    \/ \E t \in Tasks, scope \in SetScopes, env \in {EnvOf(r) : r \in Records} \cup {NoEnv} :
          Set(t, scope, env)
    \/ \E t \in Tasks : SetGlobalWrite(t)
    \/ \E t \in Tasks : SetWorkspaceRead(t)
    \/ \E t \in Tasks : SetWorkspaceWrite(t)
    \/ \E t \in Tasks : SetReturn(t)

StaleSpec == StaleInit /\ [][StaleNext]_vars

\* what the native finder may report: complete and incomplete records
VetRecords == {R1, R2, R4, R5, R6}

\* a manager over an empty persistent state, for every set of reported records
VetInit ==
    /\ EnvStart
    /\ disk \in SUBSET VetRecords
    /\ PkgStart
    /\ installed = [e \in PkgEnvs |-> {}]
    /\ DiffStart
    /\ UnitStart
    /\ before = <<>>
    /\ after = <<>>

\* refresh() while nothing changes on disk and nothing is stored
VetNext ==
    \/ \E t \in Tasks : Refresh(t)
    \/ \E t \in Tasks : DiscoverDone(t)
    \/ \E t \in Tasks : DiscoverFail(t)
    \/ \E t \in Tasks : LemGlobal(t)
    \/ \E t \in Tasks : LemWorkspace(t)

VetSpec == VetInit /\ [][VetNext]_vars

\* a manager for which discovery finds no valid environment: only incomplete records
\* on disk, over an empty persistent state or over bindings left by an earlier session
EmptyInit ==
    /\ ManagerStart
    /\ store \in {[global |-> NoPath, ws |-> NoData],
                  [global |-> V1, ws |-> [NoData EXCEPT ![P1] = V1]]}
    /\ disk \in SUBSET {R4, R5, R6}
    /\ PkgStart
    /\ installed = [e \in PkgEnvs |-> {}]
    /\ DiffStart
    /\ UnitStart
    /\ before = <<>>
    /\ after = <<>>

\* the operations of the manager while nothing changes on disk and the adapter
\* answers; a caller has no environment to pass to set() but undefined
EmptyNext ==
    \/ \E t \in Tasks : Initialize(t)
    \/ \E t \in Tasks, scope \in GetScopes : Get(t, scope)
    \/ \E t \in Tasks, scope \in GetEnvironmentsScopes \cup {<<GlobalGroup>>} :
          GetEnvironments(t, scope)
    \/ \E t \in Tasks, scope \in ResolveScopes : Resolve(t, scope)
    \/ \E t \in Tasks : Refresh(t)
    \/ \E t \in Tasks : DiscoverDone(t)
    \/ \E t \in Tasks : LemGlobal(t)
    \/ \E t \in Tasks : LemGlobalResolve(t)
    \/ \E t \in Tasks : LemWorkspace(t)
    \/ \E t \in Tasks : LemWorkspaceResolve(t)
    \/ \E t \in Tasks : InitializeReturn(t)
    \/ \E t \in Tasks : GetReturn(t)
    \/ \E t \in Tasks : GetEnvironmentsReturn(t)
    \/ \E t \in Tasks : ResolveCall(t)
    \/ \E t \in Tasks : ResolveReturn(t)
    \/ \E t \in Tasks, scope \in SetScopes : Set(t, scope, NoEnv)
    \/ \E t \in Tasks : SetGlobalWrite(t)
    \/ \E t \in Tasks : SetWorkspaceRead(t)
    \/ \E t \in Tasks : SetWorkspaceWrite(t)
    \/ \E t \in Tasks : SetReturn(t)
    \/ Restart

EmptySpec == EmptyInit /\ [][EmptyNext]_vars

\* registration on its own, on every machine and with every stored path
RegInit ==
    /\ EnvStart
    /\ disk = {}
    /\ PkgStart
    /\ installed = [e \in PkgEnvs |-> {}]
    /\ DiffStart
    /\ before = <<>>
    /\ after = <<>>
    /\ pipenvPath = NoPath
    /\ pipenvStored \in {NoPath, StoredPipenv}
    /\ host \in Hosts
    /\ managers = 0
    /\ missingNotices = 0
    /\ regAttempts = 0
    /\ regRet = NoRegRet
    /\ ExecStart
    /\ CmpStart
    /\ MergeStart
    /\ LookupStart
    /\ CondaStart
    /\ CacheStart
    /\ PermStart

RegNext == \E fails \in StateFailures, registerFails \in BOOLEAN :
               registerPipenvFeatures(fails, registerFails)

RegSpec == RegInit /\ [][RegNext]_vars

\* execution-info resolution on its own, for every record and every shell
ExecInit ==
    /\ EnvStart
    /\ disk = {}
    /\ PkgStart
    /\ installed = [e \in PkgEnvs |-> {}]
    /\ DiffStart
    /\ before = <<>>
    /\ after = <<>>
    /\ RegStart
    /\ execInfo \in ExecutionInfos
    /\ shell \in Shells
    /\ resolved = NoResolved
    /\ CmpStart
    /\ MergeStart
    /\ LookupStart
    /\ CondaStart
    /\ CacheStart
    /\ PermStart

ExecNext == ResolveRunInTerminal \/ ResolveCreateTerminal

ExecSpec == ExecInit /\ [][ExecNext]_vars

\* compareVersions on its own, for every pair of version strings
CmpInit ==
    /\ EnvStart
    /\ disk = {}
    /\ PkgStart
    /\ installed = [e \in PkgEnvs |-> {}]
    /\ DiffStart
    /\ before = <<>>
    /\ after = <<>>
    /\ RegStart
    /\ ExecStart
    /\ version1 \in VersionStrings
    /\ version2 \in VersionStrings
    /\ compared = NoCompared
    /\ MergeStart
    /\ LookupStart
    /\ CondaStart
    /\ CacheStart
    /\ PermStart

CmpNext == ApplyCompareVersions

CmpSpec == CmpInit /\ [][CmpNext]_vars

MaxInstalled == 3

\* mergePackages on its own, for every curated list and every list of installed names
MergeInit ==
    /\ EnvStart
    /\ disk = {}
    /\ PkgStart
    /\ installed = [e \in PkgEnvs |-> {}]
    /\ DiffStart
    /\ before = <<>>
    /\ after = <<>>
    /\ RegStart
    /\ ExecStart
    /\ CmpStart
    /\ common \in {[i \in 1..Len(names) |-> Curated(names[i])] :
                       names \in ListsUpTo(DiffNames, MaxLen)}
    /\ installedNames \in ListsUpTo(DiffNames, MaxInstalled)
    /\ merged = NoMerged
    /\ LookupStart
    /\ CondaStart
    /\ CacheStart
    /\ PermStart

MergeNext == ApplyMergePackages

MergeSpec == MergeInit /\ [][MergeNext]_vars

\* findEnvironmentByPath called between refreshes, for every set of environments on
\* disk and every path around them
LookupInit ==
    /\ EnvStart
    /\ disk \in SUBSET {R1, R2, R3}
    /\ PkgStart
    /\ installed = [e \in PkgEnvs |-> {}]
    /\ DiffStart
    /\ before = <<>>
    /\ after = <<>>
    /\ RegStart
    /\ ExecStart
    /\ CmpStart
    /\ MergeStart
    /\ lookupPath \in LookupPaths
    /\ looked = NoLooked
    /\ CondaStart
    /\ CacheStart
    /\ PermStart

LookupNext ==
    \/ \E t \in Tasks : Refresh(t)
    \/ \E t \in Tasks : DiscoverDone(t)
    \/ \E t \in Tasks : DiscoverFail(t)
    \/ \E t \in Tasks : LemGlobal(t)
    \/ \E t \in Tasks : LemWorkspace(t)
    \/ ApplyFindEnvironmentByPath

LookupSpec == LookupInit /\ [][LookupNext]_vars

\* refreshCondaEnvs on its own, on every machine and with every persisted path
CondaInit ==
    /\ EnvStart
    /\ disk = {}
    /\ PkgStart
    /\ installed = [e \in PkgEnvs |-> {}]
    /\ DiffStart
    /\ before = <<>>
    /\ after = <<>>
    /\ RegStart
    /\ ExecStart
    /\ CmpStart
    /\ MergeStart
    /\ LookupStart
    /\ condaPath = NoPath
    /\ condaStored \in {NoPath, StoredConda}
    /\ condaHost \in CondaHosts
    /\ condaRefreshes = 0
    /\ condaRet = NoCondaRet
    /\ CacheStart
    /\ PermStart

CondaNext == refreshCondaEnvs

CondaSpec == CondaInit /\ [][CondaNext]_vars

\* the tool caches on their own, on every machine and with every persisted path
CacheInit ==
    /\ EnvStart
    /\ disk = {}
    /\ PkgStart
    /\ installed = [e \in PkgEnvs |-> {}]
    /\ DiffStart
    /\ before = <<>>
    /\ after = <<>>
    /\ pipenvPath = NoPath
    /\ pipenvStored \in {NoPath, StoredPipenv}
    /\ host \in Hosts
    /\ managers = 0
    /\ missingNotices = 0
    /\ regAttempts = 0
    /\ regRet = NoRegRet
    /\ ExecStart
    /\ CmpStart
    /\ MergeStart
    /\ LookupStart
    /\ condaPath = NoPath
    /\ condaStored \in {NoPath, StoredConda}
    /\ condaHost \in {h \in CondaHosts : h.envs = {} /\ h.managers = <<>>}
    /\ condaRefreshes = 0
    /\ condaRet = NoCondaRet
    /\ CacheStart
    /\ PermStart

CacheNext ==
    \/ clearPipenvCache
    \/ \E fails \in StateFailures : GetPipenvCall(fails)
    \/ clearCondaCache
    \/ GetCondaCall

CacheSpec == CacheInit /\ [][CacheNext]_vars

\* the permissions of package management on their own, from every content of the
\* secret store
PermInit ==
    /\ EnvStart
    /\ disk = {}
    /\ PkgStart
    /\ installed = [e \in PkgEnvs |-> {}]
    /\ DiffStart
    /\ before = <<>>
    /\ after = <<>>
    /\ RegStart
    /\ ExecStart
    /\ CmpStart
    /\ MergeStart
    /\ LookupStart
    /\ CondaStart
    /\ CacheStart
    /\ secretStore \in [ExtensionIds -> Secrets]
    /\ extensions = ExtensionIds
    /\ permTask = IdlePermTask
    /\ permRet = NoPermRet
    /\ permCalls = 0

PermNext ==
    \/ \E extensionId \in ExtensionIds : CheckPermissions(extensionId)
    \/ \E response \in FirstTimeResponses : FirstTimeAnswered(response)
    \/ \E response \in AskResponses : AskAnswered(response)
    \/ \E extensionId \in ExtensionIds, response \in FirstTimeResponses :
           PermissionsCommand(extensionId, response)
    \/ ResetPermissions
    \/ \E all \in {ExtensionIds, {"ms.a"}} : ExtensionsChange(all)

PermSpec == PermInit /\ [][PermNext]_vars

\* the options manage() is called with
ManageOptions == {[install |-> {}, uninstall |-> {}],
                  [install |-> {"numpy"}, uninstall |-> {}],
                  [install |-> {}, uninstall |-> {"numpy"}],
                  [install |-> {"requests"}, uninstall |-> {"numpy"}]}

\* the package manager on its own
PkgInit ==
    /\ EnvStart
    /\ disk = {}
    /\ PkgStart
    /\ installed \in {[e \in PkgEnvs |-> {}], [e \in PkgEnvs |-> IF e = "e1" THEN {"numpy"} ELSE {}]}
    /\ DiffStart
    /\ UnitStart
    /\ before = <<>>
    /\ after = <<>>

PkgNext ==
    \/ \E t \in Tasks, e \in PkgEnvs : PkgRefresh(t, e)
    \/ \E t \in Tasks, e \in PkgEnvs : PkgGetPackagesMiss(t, e)
    \/ \E t \in Tasks, e \in PkgEnvs : PkgGetPackagesHit(t, e)
    \/ \E t \in Tasks, e \in PkgEnvs, options \in ManageOptions :
          PkgManage(t, e, options.install, options.uninstall)
    \/ \E t \in Tasks : PipenvNotFound(t)
    \/ \E t \in Tasks : RefreshList(t)
    \/ \E t \in Tasks : ManageNothing(t)
    \/ \E t \in Tasks : ManageStart(t)
    \/ \E t \in Tasks : UninstallDone(t)
    \/ \E t \in Tasks : InstallDone(t)
    \/ \E t \in Tasks, how \in {"rejected", "cancelled"}, applied \in BOOLEAN :
          ManageFail(t, how, applied)
    \/ \E t \in Tasks : ListDone(t)
    \/ \E t \in Tasks : ListFail(t)
    \/ \E e \in PkgEnvs, n \in PkgNames : PkgExternalChange(e, n)

PkgSpec == PkgInit /\ [][PkgNext]_vars

\* getChanges on its own, for every pair of lists
DiffInit ==
    /\ EnvStart
    /\ disk = {}
    /\ PkgStart
    /\ installed = [e \in PkgEnvs |-> {}]
    /\ DiffStart
    /\ UnitStart
    /\ before \in ListsUpTo(DiffNames, MaxLen)
    /\ after \in ListsUpTo(DiffNames, MaxLen)

DiffNext == ApplyGetChanges

DiffSpec == DiffInit /\ [][DiffNext]_vars

====
